---- MODULE Spec2Model ----
(***************************************************************************)
(* The .pak archive of Shared/IO/PakFile.cpp: PakWriter (AddFile,          *)
(* Finalize), the byte format it writes, PakFile (open, FindItem,          *)
(* FileExists, OpenFile) and PakFile::Directory (enumeration).             *)
(*                                                                         *)
(* Strings and file contents are sequences of bytes (0..255), the archive  *)
(* file is the sequence of bytes on disk, and an Item is a record with the *)
(* fields of PakFile::Item.  A pointer to an Item of the writer's tree is  *)
(* the sequence of indices that leads to it from _rootItems (<<>> is the   *)
(* null pointer / the root array).                                         *)
(***************************************************************************)
EXTENDS Integers, Sequences, FiniteSets, TLC

VARIABLES
    build,              \* the build's switches: WITH_ZLIB, WITH_LZ4, WITH_ZSTD, DEATH_TARGET_WINDOWS
    fs,                 \* the archive file on disk: [exists, data, beyond]
    w_alive,            \* the PakWriter object has not been destroyed
    w_finalized,        \* PakWriter::_finalized
    w_useHashIndex,     \* PakWriter::_useHashIndex
    w_useCompressedIndex, \* PakWriter::_useCompressedIndex
    w_alreadyExisted,   \* PakWriter::_alreadyExisted
    w_outputStream,     \* PakWriter::_outputStream: "open" or "null"
    w_mountPoint,       \* PakWriter::_mountPoint
    w_rootItems,        \* PakWriter::_rootItems
    calls,              \* number of AddFile calls made so far
    accepted,           \* the AddFile calls that returned true, in order
    crashed,            \* a null pointer was dereferenced
    ret,                \* the last operation and what it returned
    queries,            \* number of reader calls made so far
    p_constructed,      \* a PakFile object has been constructed
    p_path,             \* PakFile::_path
    p_useHashIndex,     \* PakFile::_useHashIndex
    p_mountPoint,       \* PakFile::_mountPoint
    p_rootItems,        \* PakFile::_rootItems
    p_log,              \* the assertions that failed while the PakFile was constructed,
                        \* the deepest recursion level at which an index block was read,
                        \* and the calls of ConstructsItemsFromIndex still to be made
    dir,                \* the PakFile::Directory::Impl cursor
    threads             \* the reader threads: the operation each one is in, and where

wvars == <<w_alive, w_finalized, w_useHashIndex, w_useCompressedIndex,
           w_alreadyExisted, w_outputStream, w_mountPoint, w_rootItems>>
pvars == <<p_constructed, p_path, p_useHashIndex, p_mountPoint, p_rootItems, p_log>>
vars == <<build, fs, wvars, calls, accepted, crashed, ret, queries, pvars, dir, threads>>

----------------------------------------------------------------------------
(* Bounds of the model *)

\* AddFile calls per PakWriter
MaxAdds == 2

\* lookups and opens made on a PakFile
MaxQueries == 1

\* length of the file names given to FileNameToHash alone
MaxNameLength == 3

\* reader threads on one PakFile, each making one call
MaxThreads == 2

\* size of the path buffer of a directory cursor (FileSystem::MaxPathLength)
MaxPathLength == 8

----------------------------------------------------------------------------
(* Values computed once *)

\* the element of a one-element set.  Only({F(x) : x \in {e}}) is F of the
\* value of e: e is computed once, however often F uses x (as a local variable
\* of the code is assigned once, however often it is read)
Only(S) == CHOOSE x \in S : TRUE

----------------------------------------------------------------------------
(* Bytes and strings *)

Slash == 47
Backslash == 92

\* the separator set "/\\" of trimmedPrefix, findAny and findAnyOr
IsSep(c) == c = Slash \/ c = Backslash

Front(s) == SubSeq(s, 1, Len(s) - 1)
Last(s) == s[Len(s)]

RECURSIVE Reverse(_)
Reverse(s) == IF s = <<>> THEN <<>> ELSE Append(Reverse(Tail(s)), Head(s))

RECURSIVE Zeros(_)
Zeros(n) == IF n <= 0 THEN <<>> ELSE <<0>> \o Zeros(n - 1)

\* StringView::trimmedPrefix("/\\"): the view without its leading separators
RECURSIVE trimmedPrefix(_)
trimmedPrefix(s) ==
    IF s # <<>> /\ IsSep(Head(s)) THEN trimmedPrefix(Tail(s)) ELSE s

\* StringView::findAny("/\\"): index of the first separator, 0 when there is none
RECURSIVE findAnyFrom(_, _)
findAnyFrom(s, i) ==
    IF i > Len(s) THEN 0
    ELSE IF IsSep(s[i]) THEN i
    ELSE findAnyFrom(s, i + 1)

findAny(s) == findAnyFrom(s, 1)

\* path.prefix(separator.begin()) and path.suffix(separator.end())
prefix(s, sep) == SubSeq(s, 1, sep - 1)
suffix(s, sep) == SubSeq(s, sep + 1, Len(s))

\* operator<(StringView, StringView): memcmp over the common length, then the sizes
RECURSIVE StrLessFrom(_, _, _)
StrLessFrom(a, b, i) ==
    IF i > Len(a) \/ i > Len(b) THEN Len(a) < Len(b)
    ELSE IF a[i] # b[i] THEN a[i] < b[i]
    ELSE StrLessFrom(a, b, i + 1)

StrLess(a, b) == StrLessFrom(a, b, 1)

----------------------------------------------------------------------------
(* Format constants *)

OptionalHeader == <<239, 187, 191, 240, 159, 140, 170, 58>>
Signature == <<240, 159, 140, 170>>
Version == 1
FooterSize == 16
MaxDepth == 64
HashIndexLength == 8
INT16_MAX == 32767
INT32_MAX == 2147483647

\* PakFileFlags
DeflateCompressedIndex == 1
Aes256EncryptedIndex == 2
HashIndex == 4

\* PakFile::ItemFlags
Directory == 1
DeflateCompressed == 2
Lz4Compressed == 4
Lzma2Compressed == 8
ZstdCompressed == 16

\* (flags & bit) == bit, for a single-bit mask
HasFlag(flags, bit) == (flags \div bit) % 2 = 1

\* PakFile::HasCompressedSize
HasCompressedSize(itemFlags) ==
    \/ HasFlag(itemFlags, DeflateCompressed)
    \/ HasFlag(itemFlags, Lz4Compressed)
    \/ HasFlag(itemFlags, Lzma2Compressed)
    \/ HasFlag(itemFlags, ZstdCompressed)

\* a value-initialized PakFile::Item
DefaultItem ==
    [Name |-> <<>>, Flags |-> 0, Offset |-> 0, UncompressedSize |-> 0,
     Size |-> 0, ChildItems |-> <<>>]

IsDirectory(item) == HasFlag(item.Flags, Directory)

----------------------------------------------------------------------------
(* Stream collaborator: integers on the wire *)

\* Stream::WriteVariableUint32 / WriteVariableUint64: 7 bits per byte, low group
\* first, bit 7 set on every byte but the last
RECURSIVE WriteVariableUint(_)
WriteVariableUint(v) ==
    IF v < 128 THEN <<v>>
    ELSE <<128 + (v % 128)>> \o WriteVariableUint(v \div 128)

\* WriteValue<T> of an unsigned value on a little-endian target
RECURSIVE WriteValueLE(_, _)
WriteValueLE(v, n) ==
    IF n = 0 THEN <<>> ELSE <<v % 256>> \o WriteValueLE(v \div 256, n - 1)

\* the byte at position p (0-based) of a stream; ReadValue<T> zero-initializes
\* its buffer, so a read past the end gives 0
ByteAt(d, p) == IF p >= 0 /\ p < Len(d) THEN d[p + 1] ELSE 0

\* Stream::Read of n bytes at position p
ReadBytes(d, p, n) == [i \in 1..n |-> ByteAt(d, p + i - 1)]

\* Stream::ReadVariableUint32 / ReadVariableUint64 at position p
RECURSIVE ReadVariableFrom(_, _, _, _)
ReadVariableFrom(d, p, mul, acc) ==
    LET cur == ByteAt(d, p)
        acc2 == acc + (cur % 128) * mul
    IN IF cur >= 128 THEN ReadVariableFrom(d, p + 1, mul * 128, acc2)
       ELSE [v |-> acc2, pos |-> p + 1]

ReadVariableUint(d, p) == ReadVariableFrom(d, p, 1, 0)

\* ReadValue<T> of an n-byte little-endian unsigned value at position p
RECURSIVE ReadValueLE(_, _, _)
ReadValueLE(d, p, n) ==
    IF n = 0 THEN 0 ELSE ByteAt(d, p) + 256 * ReadValueLE(d, p + 1, n - 1)

----------------------------------------------------------------------------
(* 64-bit byte counts *)

\* a std::int64_t count of bytes, kept as two digits of base 2^16 so that the
\* values around 2^32 can be written: hi * 65536 + lo
Wide(hi, lo) == [hi |-> hi, lo |-> lo]

ToWide(n) == Wide(n \div 65536, n % 65536)

WideLess(a, b) == a.hi < b.hi \/ (a.hi = b.hi /\ a.lo < b.lo)

WideAdd(a, n) == Wide(a.hi + (a.lo + n) \div 65536, (a.lo + n) % 65536)

UINT32_MAX == Wide(65535, 65535)

\* std::uint32_t(v): the low 32 bits
Uint32(v) == Wide(v.hi % 65536, v.lo)

\* the 32-bit field as the number the item holds (below 2^31 in every state
\* the model reaches)
FieldOf(v) == v.hi * 65536 + v.lo

----------------------------------------------------------------------------
(* Compression collaborators *)

CompressionFlag(kind) ==
    CASE kind = "Deflate" -> DeflateCompressed
      [] kind = "Lz4" -> Lz4Compressed
      [] kind = "Zstd" -> ZstdCompressed
      [] OTHER -> 0

\* the bytes a compressing writer (DeflateWriter, Lz4Writer, ZstdWriter) leaves
\* in its output for the input `content`: a frame with a kind byte and the
\* input length, then the payload with every byte complemented
Compress(kind, content) ==
    <<200 + CompressionFlag(kind), Len(content)>>
        \o [i \in 1..Len(content) |-> 255 - content[i]]

\* what the matching decompressing stream reads back from a frame
Decompress(kind, frame) ==
    IF Len(frame) < 2 \/ frame[1] # 200 + CompressionFlag(kind)
        \/ Len(frame) < 2 + frame[2]
    THEN <<>>
    ELSE [i \in 1..frame[2] |-> 255 - frame[2 + i]]

\* number of bytes the frame that starts at position p of d occupies
FrameLength(d, p) == 2 + ByteAt(d, p + 1)

\* number of bytes a compressing writer leaves in its output for a stream of
\* `length` bytes: the frame's two bytes and the payload
CompressedLength(kind, length) == WideAdd(length, 2)

----------------------------------------------------------------------------
(* FileNameToHash *)

\* the byte stored as it is
Lowercase_Kept(c) == c

\* c += (std::uint8_t(c - 'A') < 26) << 5
Lowercase(c) == IF c >= 65 /\ c < 65 + 26 THEN c + 32 ELSE c

\* the loop of FileNameToHash over fileName[i..]: the normalized bytes
RECURSIVE NormalizeFrom(_, _, _)
NormalizeFrom(fileName, i, lastWasSlash) ==
    IF i > Len(fileName) THEN <<>>
    ELSE LET c == IF fileName[i] = Backslash THEN Slash ELSE fileName[i]
         IN IF c = Slash /\ lastWasSlash
            THEN NormalizeFrom(fileName, i + 1, TRUE)
            ELSE <<Lowercase(c)>> \o NormalizeFrom(fileName, i + 1, c = Slash)

NormalizedFileName(fileName) == NormalizeFrom(fileName, 1, FALSE)

\* xxHash3 of a byte buffer, as the 8 bytes std::memcpy stores into Name: a
\* function of the bytes alone, one-to-one on buffers shorter than 8 bytes
xxHash3(bytes) ==
    LET n == IF Len(bytes) < HashIndexLength THEN Len(bytes) ELSE HashIndexLength - 1
    IN <<Len(bytes) % 256>> \o SubSeq(bytes, 1, n) \o Zeros(HashIndexLength - 1 - n)

FileNameToHash(fileName) ==
    Only({ xxHash3(bytes) : bytes \in {NormalizedFileName(fileName)} })

----------------------------------------------------------------------------
(* The item tree *)

\* the array a pointer designates: _rootItems for <<>>, else the ChildItems
\* of the item the index path leads to
\* (a long index path is followed as its first half, then the rest from
\* where that leads, which keeps the evaluation's nesting logarithmic)
RECURSIVE ItemsAt(_, _)
ItemsAt(items, ip) ==
    IF ip = <<>> THEN items
    ELSE IF Len(ip) = 1 THEN items[Head(ip)].ChildItems
    ELSE Only({ ItemsAt(middle, rest) :
                    middle \in {ItemsAt(items, SubSeq(ip, 1, Len(ip) \div 2))},
                    rest \in {SubSeq(ip, Len(ip) \div 2 + 1, Len(ip))} })

\* the tree with the array a pointer designates replaced by new
RECURSIVE SetItemsAt(_, _, _)
SetItemsAt(items, ip, new) ==
    IF ip = <<>> THEN new
    ELSE IF Len(ip) = 1 THEN [items EXCEPT ![Head(ip)].ChildItems = new]
    ELSE Only({ SetItemsAt(items, first, inner) :
                    first \in {SubSeq(ip, 1, Len(ip) \div 2)},
                    inner \in {Only({ SetItemsAt(middle, rest, new) :
                                  middle \in {ItemsAt(items, SubSeq(ip, 1, Len(ip) \div 2))},
                                  rest \in {SubSeq(ip, Len(ip) \div 2 + 1, Len(ip))} })} })

ItemAt(root, ip) == ItemsAt(root, Front(ip))[Last(ip)]

SetItemAt(root, ip, item) ==
    SetItemsAt(root, Front(ip), [ItemsAt(root, Front(ip)) EXCEPT ![Last(ip)] = item])

\* index of the first item of the array whose Name is name, 0 when there is none
RECURSIVE IndexOfNameFrom(_, _, _)
IndexOfNameFrom(items, name, i) ==
    IF i > Len(items) THEN 0
    ELSE IF items[i].Name = name THEN i
    ELSE IndexOfNameFrom(items, name, i + 1)

IndexOfName(items, name) == IndexOfNameFrom(items, name, 1)

\* std::sort with the comparator a.Name < b.Name.  Names that compare equal
\* may end in either order: tie picks the order
RECURSIVE InsertSorted(_, _)
InsertSorted(sorted, item) ==
    IF sorted = <<>> THEN <<item>>
    ELSE IF StrLess(item.Name, Head(sorted).Name) THEN <<item>> \o sorted
    ELSE <<Head(sorted)>> \o InsertSorted(Tail(sorted), item)

RECURSIVE StableSort(_)
StableSort(items) ==
    IF items = <<>> THEN <<>>
    ELSE Only({ InsertSorted(sorted, Last(items)) :
                    sorted \in {StableSort(Front(items))} })

SortByName(items, tie) ==
    Only({ StableSort(given) : given \in {IF tie THEN Reverse(items) ELSE items} })

----------------------------------------------------------------------------
(* Inputs *)

\* "x", "x/y", "a/b", "a//b", "d/e/f", "/x", "A/b", "a\b"
FilePaths ==
    { <<120>>, <<120, 47, 121>>, <<97, 47, 98>>, <<97, 47, 47, 98>>,
      <<100, 47, 101, 47, 102>>, <<47, 120>>, <<65, 47, 98>>, <<97, 92, 98>> }

\* the paths AddFile is called with: the file paths, "" and "a/"
AddPaths == FilePaths \cup { <<>>, <<97, 47>> }

\* the source streams with the compression asked for them
Inputs ==
    { [content |-> <<7>>, pc |-> "None"],
      [content |-> <<8, 9>>, pc |-> "Zstd"],
      [content |-> <<>>, pc |-> "Deflate"] }

\* the builds: every codec on a non-Windows target, no codec on Windows
Builds ==
    { [zlib |-> TRUE, lz4 |-> TRUE, zstd |-> TRUE, windows |-> FALSE],
      [zlib |-> FALSE, lz4 |-> FALSE, zstd |-> FALSE, windows |-> TRUE] }

\* whether the build compiles the writer/reader of a compression kind in
CodecAvailable(b, kind) ==
    CASE kind = "Deflate" -> b.zlib
      [] kind = "Lz4" -> b.lz4
      [] kind = "Zstd" -> b.zstd
      [] OTHER -> FALSE

\* a source stream: the bytes it holds and their number.  A stream of 2^31
\* bytes or more is given by its length alone (content is empty)
StreamOf(content) == [content |-> content, length |-> ToWide(Len(content))]

SparseStream(length) == [content |-> <<>>, length |-> length]

IsSparse(stream) == stream.length # ToWide(Len(stream.content))

\* the streams of 2^31 - 1, 2^32 and 2^32 + 1 bytes
SparseInputs ==
    { [stream |-> SparseStream(Wide(32767, 65535)), pc |-> "None"],
      [stream |-> SparseStream(Wide(65536, 0)), pc |-> "None"],
      [stream |-> SparseStream(Wide(65536, 1)), pc |-> "Zstd"] }

\* beyond: the file holds the bytes of a sparse stream, which data leaves out
NoFile == [exists |-> FALSE, data |-> <<>>, beyond |-> FALSE]
NoStream == [kind |-> "null", offset |-> 0, size |-> 0, length |-> 0]
NoDir == [cursor |-> [open |-> FALSE], yielded |-> <<>>, ended |-> FALSE]
NoRet == [op |-> "none", path |-> <<>>, ok |-> FALSE, stream |-> NoStream]

Ret(op, path, ok) == [op |-> op, path |-> path, ok |-> ok, stream |-> NoStream]

----------------------------------------------------------------------------
(* PakWriter *)

\* PakWriter::PakWriter followed by nothing else: the output file is created
\* (or truncated) and the optional header written
WriterConstructed(b, useHashIndex, useCompressedIndex, alreadyExisted) ==
    /\ build = b
    /\ fs = [exists |-> TRUE, data |-> OptionalHeader, beyond |-> FALSE]
    /\ w_alive = TRUE
    /\ w_finalized = FALSE
    /\ w_useHashIndex = useHashIndex
    /\ w_useCompressedIndex = useCompressedIndex
    /\ w_alreadyExisted = alreadyExisted
    /\ w_outputStream = "open"
    /\ w_mountPoint = <<>>
    /\ w_rootItems = <<>>

\* one iteration of the loop of PakWriter::FindOrCreateParentItem, at being the
\* tree, the pointer parentItem and the remaining path when it starts: the
\* directory named by the first component is found, or created at the end of
\* the array, and becomes parentItem
FindOrCreateStep(at) ==
    LET separator == findAny(at.path)
        name == prefix(at.path, separator)
        items == ItemsAt(at.root, at.parentItem)
        found == IndexOfName(items, name)
        created == [DefaultItem EXCEPT !.Name = name, !.Flags = Directory]
    IN [root |-> IF found = 0
                 THEN SetItemsAt(at.root, at.parentItem, Append(items, created))
                 ELSE at.root,
        parentItem |-> Append(at.parentItem, IF found = 0 THEN Len(items) + 1 ELSE found),
        path |-> suffix(at.path, separator)]

\* up to n iterations of the loop of PakWriter::FindOrCreateParentItem, one
\* after the other (the first half of them, then the rest, which keeps the
\* evaluation's nesting logarithmic)
RECURSIVE FindOrCreateSteps(_, _)
FindOrCreateSteps(at, n) ==
    IF findAny(at.path) = 0 THEN at
    ELSE IF n = 1 THEN FindOrCreateStep(at)
    ELSE Only({ FindOrCreateSteps(half, n - n \div 2) :
                    half \in {FindOrCreateSteps(at, n \div 2)} })

\* PakWriter::FindOrCreateParentItem: the loop, with the tree, the pointer
\* parentItem and the remaining path as they are after it.  Every iteration
\* takes a separator off the path
FindOrCreateLoop(at) == FindOrCreateSteps(at, Len(at.path))

FindOrCreateParentItem(root, path) ==
    Only({ FindOrCreateLoop([root |-> root, parentItem |-> <<>>, path |-> trimmed]) :
               trimmed \in {trimmedPrefix(path)} })

\* the parent looked up in flat-hash mode as well
ParentFor_TreeAlways(root, path, useHashIndex) == FindOrCreateParentItem(root, path)

\* the array PakWriter::AddFile works on: &_rootItems, or in tree mode the
\* ChildItems of what FindOrCreateParentItem returns, which also trims path
ParentFor(root, path, useHashIndex) ==
    IF useHashIndex
    THEN [root |-> root, parentItem |-> <<>>, path |-> path]
    ELSE FindOrCreateParentItem(root, path)

\* the output position staying where the constructor left it
GetPosition_AfterHeader(data) == Len(OptionalHeader)

\* _outputStream->GetPosition() of a stream opened for writing: the bytes
\* written so far
GetPosition(data) == Len(data)

\* Stream::CopyTo(target): the number of bytes copied
CopyTo(stream) == stream.length

\* the range assertion of PakWriter::AddFile, never failing
SizeAllowed_Unchecked(uncompressedSize, size) == TRUE

\* the range assertion of PakWriter::AddFile:
\* uncompressedSize < UINT32_MAX && size < UINT32_MAX
SizeAllowed(uncompressedSize, size) ==
    WideLess(uncompressedSize, UINT32_MAX) /\ WideLess(size, UINT32_MAX)

\* the body of PakWriter::AddFile once the two entry assertions passed
AddFileBody(stream, path, preferredCompression) ==
    \E found \in { ParentFor(w_rootItems, path, w_useHashIndex) } :
    LET items == ItemsAt(found.root, found.parentItem)
        exists == \E i \in 1..Len(items) : items[i].Name = found.path
        compress == /\ preferredCompression \in {"Deflate", "Lz4", "Zstd"}
                    /\ CodecAvailable(build, preferredCompression)
        offset == GetPosition(fs.data)
        written == IF compress THEN Compress(preferredCompression, stream.content)
                   ELSE stream.content
        uncompressedSize == CopyTo(stream)
        size == IF compress THEN CompressedLength(preferredCompression, stream.length)
                ELSE ToWide(0)
        flags == IF compress THEN CompressionFlag(preferredCompression) ELSE 0
        newItem == [Name |-> IF w_useHashIndex THEN FileNameToHash(path) ELSE found.path,
                    Flags |-> flags,
                    Offset |-> offset,
                    UncompressedSize |-> FieldOf(Uint32(uncompressedSize)),
                    Size |-> FieldOf(Uint32(size)),
                    ChildItems |-> <<>>]
    IN IF exists
       THEN /\ w_rootItems' = found.root
            /\ ret' = Ret("AddFile", path, FALSE)
            /\ UNCHANGED <<fs, accepted>>
       ELSE /\ fs' = [fs EXCEPT !.data = @ \o written, !.beyond = @ \/ IsSparse(stream)]
            /\ IF WideLess(ToWide(0), uncompressedSize)
                  /\ SizeAllowed(uncompressedSize, size)
               THEN /\ w_rootItems' = SetItemsAt(found.root, found.parentItem,
                                                 Append(items, newItem))
                    /\ accepted' = Append(accepted,
                           [path |-> path, content |-> stream.content, Offset |-> offset,
                            stored |-> Len(written), compressed |-> compress,
                            uncompressedSize |-> uncompressedSize, size |-> size])
                    /\ ret' = Ret("AddFile", path, TRUE)
               ELSE /\ w_rootItems' = found.root
                    /\ ret' = Ret("AddFile", path, FALSE)
                    /\ UNCHANGED accepted

\* PakWriter::AddFile
AddFile(stream, path, preferredCompression) ==
    /\ w_alive /\ ~crashed /\ ~fs.beyond
    /\ calls < MaxAdds
    /\ calls' = calls + 1
    /\ IF w_outputStream = "null"
       THEN \* _outputStream->IsValid() through a null pointer
            /\ crashed' = TRUE
            /\ ret' = Ret("AddFile", path, FALSE)
            /\ UNCHANGED <<fs, w_rootItems, accepted>>
       ELSE /\ UNCHANGED crashed
            /\ IF path = <<>> \/ IsSep(Last(path))
               THEN /\ ret' = Ret("AddFile", path, FALSE)
                    /\ UNCHANGED <<fs, w_rootItems, accepted>>
               ELSE AddFileBody(stream, path, preferredCompression)
    /\ UNCHANGED <<threads, build, w_alive, w_finalized, w_useHashIndex, w_useCompressedIndex,
                   w_alreadyExisted, w_outputStream, w_mountPoint, queries, pvars, dir>>

\* the pointers to the Directory items of an array, in array order
RECURSIVE DirectoryPointersFrom(_, _, _)
DirectoryPointersFrom(items, parent, i) ==
    IF i > Len(items) THEN <<>>
    ELSE (IF IsDirectory(items[i]) THEN <<Append(parent, i)>> ELSE <<>>)
             \o DirectoryPointersFrom(items, parent, i + 1)

\* queuedDirectories of PakWriter::Finalize: the root's directories, then the
\* directories among the children of every queued directory, in discovery order
\* (n iterations of the second loop from queuedDirectories[i] on: the first
\* half of them, then the rest, which keeps the evaluation's nesting
\* logarithmic; then every iteration, n at first and twice as many each time)
RECURSIVE QueueDirectoriesSteps(_, _, _, _)
QueueDirectoriesSteps(root, queued, i, n) ==
    IF i > Len(queued) THEN queued
    ELSE IF n = 1
    THEN queued \o DirectoryPointersFrom(ItemsAt(root, queued[i]), queued[i], 1)
    ELSE Only({ QueueDirectoriesSteps(root, longer, i + n \div 2, n - n \div 2) :
                    longer \in {QueueDirectoriesSteps(root, queued, i, n \div 2)} })

RECURSIVE QueueDirectoriesFrom(_, _, _, _)
QueueDirectoriesFrom(root, queued, i, n) ==
    IF i > Len(queued) THEN queued
    ELSE Only({ QueueDirectoriesFrom(root, longer, i + n, 2 * n) :
                    longer \in {QueueDirectoriesSteps(root, queued, i, n)} })

QueueDirectories(root, queued, i) == QueueDirectoriesFrom(root, queued, i, 1)

QueuedDirectories(root) ==
    Only({ QueueDirectories(root, queued, 1) :
               queued \in {DirectoryPointersFrom(root, <<>>, 1)} })

\* hasFiles taken as set whatever the tree holds
HasFiles_Always(root, queued) == TRUE

\* hasFiles of PakWriter::Finalize
HasFiles(root, queued) ==
    \/ \E i \in 1..Len(root) : ~IsDirectory(root[i])
    \/ \E q \in 1..Len(queued) :
          \E i \in 1..Len(ItemsAt(root, queued[q])) :
              ~IsDirectory(ItemsAt(root, queued[q])[i])

\* PakWriter::WriteItemDescription
WriteItemDescription(item, useHashIndex) ==
    WriteVariableUint(item.Flags)
    \o (IF useHashIndex
        THEN ReadBytes(item.Name, 0, HashIndexLength)
        ELSE WriteVariableUint(Len(item.Name)) \o item.Name)
    \o WriteVariableUint(item.Offset)
    \o (IF IsDirectory(item) THEN <<>>
        ELSE WriteVariableUint(item.UncompressedSize)
             \o (IF HasCompressedSize(item.Flags)
                 THEN WriteVariableUint(item.Size) ELSE <<>>))

RECURSIVE WriteItemDescriptions(_, _)
WriteItemDescriptions(items, useHashIndex) ==
    IF items = <<>> THEN <<>>
    ELSE WriteItemDescription(Head(items), useHashIndex)
             \o WriteItemDescriptions(Tail(items), useHashIndex)

\* what a block becomes on its way to the output: through a DeflateWriter when
\* the index is compressed and the build has Deflate, unchanged otherwise
IndexBytes(block, useCompressedIndex, b) ==
    IF useCompressedIndex /\ b.zlib THEN Compress("Deflate", block) ELSE block

\* one iteration of the loop of Finalize over queuedDirectories, at being the
\* tree and the output when it starts: the directory takes the output position
\* as Offset, has its children sorted and their descriptions written
WriteDirectory(at, pointer, tie) ==
    Only({ [root |-> SetItemAt(at.root, pointer,
                               [ItemAt(at.root, pointer) EXCEPT !.Offset = Len(at.data),
                                                                !.ChildItems = sorted]),
            data |-> at.data \o IndexBytes(WriteVariableUint(Len(sorted))
                                              \o WriteItemDescriptions(sorted, w_useHashIndex),
                                          w_useCompressedIndex, build)] :
               sorted \in {SortByName(ItemAt(at.root, pointer).ChildItems, tie)} })

\* the iterations of the loop of Finalize for queuedDirectories[i] down to
\* queuedDirectories[last] (the upper half of them, then the rest, which
\* keeps the evaluation's nesting logarithmic)
RECURSIVE WriteDirectoriesRange(_, _, _, _, _)
WriteDirectoriesRange(at, queued, i, last, tie) ==
    IF i < last THEN at
    ELSE IF i = last THEN WriteDirectory(at, queued[i], tie)
    ELSE Only({ WriteDirectoriesRange(half, queued, (i + last) \div 2, last, tie) :
                    half \in {WriteDirectoriesRange(at, queued, i,
                                                    (i + last) \div 2 + 1, tie)} })

\* the same loop from the first queued directory to the last
WriteDirectories_Forwards(at, queued, i, tie) ==
    WriteDirectoriesRange(at, Reverse(queued), i, 1, tie)

\* the loop of Finalize over queuedDirectories[i], i downwards
WriteDirectories(at, queued, i, tie) == WriteDirectoriesRange(at, queued, i, 1, tie)

\* the root index block: mount point, item count, item descriptions
RootBlock(mountPoint, rootItems, useHashIndex) ==
    WriteVariableUint(Len(mountPoint)) \o mountPoint
        \o WriteVariableUint(Len(rootItems))
        \o WriteItemDescriptions(rootItems, useHashIndex)

\* the footer: signature, version, flags, root index offset
Footer(useHashIndex, useCompressedIndex, b, rootIndexOffset) ==
    LET fileFlags == (IF useHashIndex THEN HashIndex ELSE 0)
                     + (IF useCompressedIndex /\ b.zlib THEN DeflateCompressedIndex ELSE 0)
    IN Signature \o WriteValueLE(Version, 2) \o WriteValueLE(fileFlags, 2)
           \o WriteValueLE(rootIndexOffset, 8)

\* Finalize without its guard
FinalizeDone_NoGuard == FALSE

\* the guard at the top of PakWriter::Finalize
FinalizeDone == w_finalized

\* the body of PakWriter::Finalize after the guard
FinalizeBody(tie) ==
    \E queued \in {QueuedDirectories(w_rootItems)} :
    \E dirs \in {WriteDirectories([root |-> w_rootItems, data |-> fs.data],
                                  queued, Len(queued), tie)} :
    \E rootItems \in {SortByName(dirs.root, tie)} :
    LET rootIndexOffset == Len(dirs.data)
        data == dirs.data
                  \o IndexBytes(RootBlock(w_mountPoint, rootItems, w_useHashIndex),
                                w_useCompressedIndex, build)
                  \o Footer(w_useHashIndex, w_useCompressedIndex, build, rootIndexOffset)
    IN /\ w_finalized' = TRUE
       /\ IF w_outputStream = "null"
          THEN \* _outputStream->GetPath() / GetPosition() through a null pointer
               /\ crashed' = TRUE
               /\ UNCHANGED <<fs, w_rootItems, w_outputStream>>
          ELSE /\ UNCHANGED crashed
               /\ w_outputStream' = "null"
               /\ IF ~HasFiles(w_rootItems, queued)
                  THEN /\ fs' = IF w_alreadyExisted THEN fs ELSE NoFile
                       /\ UNCHANGED w_rootItems
                  ELSE /\ fs' = [fs EXCEPT !.data = data]
                       /\ w_rootItems' = rootItems

\* PakWriter::Finalize as a call
FinalizeCall(tie) ==
    IF FinalizeDone
    THEN UNCHANGED <<fs, w_finalized, w_outputStream, w_rootItems, crashed>>
    ELSE FinalizeBody(tie)

\* PakWriter::Finalize called by the owner
Finalize ==
    /\ w_alive /\ ~crashed /\ ~fs.beyond
    /\ \E tie \in BOOLEAN : FinalizeCall(tie)
    /\ ret' = Ret("Finalize", <<>>, w_finalized)
    /\ UNCHANGED <<threads, build, w_alive, w_useHashIndex, w_useCompressedIndex, w_alreadyExisted,
                   w_mountPoint, calls, accepted, queries, pvars, dir>>

\* PakWriter::~PakWriter: Finalize, then the members are destroyed
Destroy ==
    /\ w_alive /\ ~crashed /\ ~fs.beyond
    /\ w_alive' = FALSE
    /\ \E tie \in BOOLEAN : FinalizeCall(tie)
    /\ ret' = Ret("~PakWriter", <<>>, w_finalized)
    /\ UNCHANGED <<threads, build, w_useHashIndex, w_useCompressedIndex, w_alreadyExisted,
                   w_mountPoint, calls, accepted, queries, pvars, dir>>

\* PakWriter::IsValid called by the owner: _outputStream->IsValid(), the
\* stream being valid while it is open
PakWriterIsValid ==
    /\ w_alive /\ ~crashed
    /\ IF w_outputStream = "null"
       THEN \* _outputStream->IsValid() through a null pointer
            /\ crashed' = TRUE
            /\ ret' = Ret("PakWriter::IsValid", <<>>, FALSE)
       ELSE /\ UNCHANGED crashed
            /\ ret' = Ret("PakWriter::IsValid", <<>>, TRUE)
    /\ UNCHANGED <<threads, build, fs, wvars, calls, accepted, queries, pvars, dir>>

\* the mount points the owner sets: "m" and "m/"
MountPoints == { <<109>>, <<109, 47>> }

\* PakWriter::SetMountPoint, called by the owner before Finalize
SetMountPoint(value) ==
    /\ w_alive /\ ~crashed /\ ~w_finalized
    /\ w_mountPoint # value
    /\ w_mountPoint' = value
    /\ ret' = Ret("SetMountPoint", value, TRUE)
    /\ UNCHANGED <<threads, build, fs, w_alive, w_finalized, w_useHashIndex,
                   w_useCompressedIndex, w_alreadyExisted, w_outputStream,
                   w_rootItems, calls, accepted, crashed, queries, pvars, dir>>

----------------------------------------------------------------------------
(* PakFile: opening an archive *)

\* the path the archive file is opened under ("p")
ArchivePath == <<112>>

\* FileSystem::PathSeparator of the build
PathSeparator(b) == IF b.windows THEN Backslash ELSE Slash

\* what the item loop of PakFile::ReadIndexFromStream reads behind the name:
\* Offset, then UncompressedSize and Size for the items that have them
ReadItemSizes(d, item, offset) ==
    IF IsDirectory(item)
    THEN [ok |-> TRUE, pos |-> offset.pos, item |-> [item EXCEPT !.Offset = offset.v]]
    ELSE Only({
        IF HasCompressedSize(item.Flags)
        THEN Only({ [ok |-> TRUE, pos |-> size.pos,
                     item |-> [item EXCEPT !.Offset = offset.v,
                                           !.UncompressedSize = uncompressedSize.v,
                                           !.Size = size.v]] :
                        size \in {ReadVariableUint(d, uncompressedSize.pos)} })
        ELSE [ok |-> TRUE, pos |-> uncompressedSize.pos,
              item |-> [item EXCEPT !.Offset = offset.v,
                                    !.UncompressedSize = uncompressedSize.v]] :
            uncompressedSize \in {ReadVariableUint(d, offset.pos)} })

\* what it reads behind the flags: the name (8 bytes of hash, or a length and
\* that many bytes), then the rest; ok is FALSE when the name length assertion
\* returned nullptr
ReadItemName(d, flags, nameLength, useHashIndex) ==
    IF ~useHashIndex /\ ~(nameLength.v = 0 \/ nameLength.v < INT32_MAX)
    THEN [ok |-> FALSE, pos |-> nameLength.pos,
          item |-> [DefaultItem EXCEPT !.Flags = flags.v]]
    ELSE Only({ ReadItemSizes(d, [DefaultItem EXCEPT
                                     !.Flags = flags.v,
                                     !.Name = ReadBytes(d, nameLength.pos, nameLength.v)],
                              offset) :
                    offset \in {ReadVariableUint(d, nameLength.pos + nameLength.v)} })

\* one pass of the item loop of PakFile::ReadIndexFromStream: the item read at
\* pos and the position behind it
ReadItem(d, pos, useHashIndex) ==
    Only({ Only({ ReadItemName(d, flags, nameLength, useHashIndex) :
                      nameLength \in { IF useHashIndex
                                       THEN [v |-> HashIndexLength, pos |-> flags.pos]
                                       ELSE ReadVariableUint(d, flags.pos) } }) :
               flags \in {ReadVariableUint(d, pos)} })

\* the item loop of PakFile::ReadIndexFromStream from item i on: items is the
\* value-initialized array being filled, ok is FALSE when the name length
\* assertion returned nullptr in the middle
RECURSIVE ReadItems(_, _, _, _, _)
ReadItems(d, pos, items, i, useHashIndex) ==
    IF i > Len(items) THEN [ok |-> TRUE, items |-> items]
    ELSE Only({ IF read.ok
                THEN ReadItems(d, read.pos, [items EXCEPT ![i] = read.item], i + 1,
                               useHashIndex)
                ELSE [ok |-> FALSE, items |-> [items EXCEPT ![i] = read.item]] :
                    read \in {ReadItem(d, pos, useHashIndex)} })

\* PakFile::ReadIndexFromStream behind the mount point: the item count and
\* the items
ReadIndexItems(d, pos, mountPoint, useHashIndex) ==
    Only({ Only({ [ok |-> read.ok, mountPoint |-> mountPoint, items |-> read.items,
                   asserted |-> IF read.ok THEN {} ELSE {"Malformed .pak file"}] :
                      read \in { ReadItems(d, itemCount.pos,
                                           [i \in 1..itemCount.v |-> DefaultItem],
                                           1, useHashIndex) } }) :
               itemCount \in {ReadVariableUint(d, pos)} })

\* PakFile::ReadIndexFromStream on the stream d at position pos: ok is FALSE
\* when it returned nullptr; mountPoint and items are what it left in
\* _mountPoint and in the array it was filling, asserted the assertion that failed
ReadIndexFromStream(d, pos, isRoot, useHashIndex, b) ==
    IF ~isRoot THEN ReadIndexItems(d, pos, <<>>, useHashIndex)
    ELSE Only({
        IF ~(mountPointLength.v < INT16_MAX)
        THEN [ok |-> FALSE, mountPoint |-> <<>>, items |-> <<>>,
              asserted |-> {"Invalid mount point"}]
        ELSE Only({ ReadIndexItems(d, mountPointLength.pos + mountPointLength.v,
                                   IF raw # <<>> /\ ~IsSep(Last(raw))
                                   THEN Append(raw, PathSeparator(b)) ELSE raw,
                                   useHashIndex) :
                        raw \in {ReadBytes(d, mountPointLength.pos, mountPointLength.v)} }) :
            mountPointLength \in {ReadVariableUint(d, pos)} })

\* PakFile::ReadIndexFromStreamDeflateCompressed
ReadIndexFromStreamDeflateCompressed(d, pos, isRoot, useHashIndex, b) ==
    IF b.zlib
    THEN Only({ ReadIndexFromStream(inflated, 0, isRoot, useHashIndex, b) :
                    inflated \in { Decompress("Deflate",
                                       SubSeq(d, pos + 1, pos + FrameLength(d, pos))) } })
    ELSE [ok |-> FALSE, mountPoint |-> <<>>, items |-> <<>>,
          asserted |-> {"Deflate is not supported"}]

\* the assertion letting one more level through
DepthAllowed_OneMore(depth) == depth < MaxDepth + 1

\* the assertion at the top of PakFile::ConstructsItemsFromIndex
DepthAllowed(depth) == depth < MaxDepth

Max(a, b) == IF a < b THEN b ELSE a

\* a call of ConstructsItemsFromIndex that is still to run: parentItem is the
\* index path of the item it fills (<<>> for nullptr), offset where s was
\* positioned for it
Call(parentItem, offset, depth) ==
    [parentItem |-> parentItem, offset |-> offset, depth |-> depth]

\* the members of the PakFile while its constructor runs, with the calls of
\* ConstructsItemsFromIndex still to be made (next one first), the assertions
\* that failed and the deepest level at which a block was read
Constructing(rootIndexOffset) ==
    [rootItems |-> <<>>, mountPoint |-> <<>>, asserted |-> {}, deepest |-> -1,
     pending |-> <<Call(<<>>, rootIndexOffset, 0)>>]

\* the loop of ConstructsItemsFromIndex over the items read: the calls it
\* makes, one for each directory, in the order of the array
DirectoryCalls(items, call) ==
    LET each == [i \in 1..Len(items) |->
                     Call(Append(call.parentItem, i), items[i].Offset, call.depth + 1)]
    IN SelectSeq(each, LAMBDA c : IsDirectory(items[Last(c.parentItem)]))

\* one call of PakFile::ConstructsItemsFromIndex, c being the constructor's
\* state when the call is entered: the block is read into the array of
\* call.parentItem, and the calls for its directories come before the ones
\* that were pending
ConstructsItemsFromIndex(d, c, call, deflateCompressed, useHashIndex, b) ==
    IF ~DepthAllowed(call.depth)
    THEN [c EXCEPT !.asserted = @ \cup {"Maximum directory structure depth reached"}]
    ELSE LET isRoot == call.parentItem = <<>>
         IN Only({ [c EXCEPT !.rootItems = SetItemsAt(@, call.parentItem, index.items),
                             !.mountPoint = IF isRoot THEN index.mountPoint ELSE @,
                             !.asserted = @ \cup index.asserted,
                             !.deepest = Max(@, call.depth),
                             !.pending = IF index.ok
                                         THEN DirectoryCalls(index.items, call) \o @
                                         ELSE @] :
                       index \in { IF deflateCompressed
                                   THEN ReadIndexFromStreamDeflateCompressed(
                                            d, call.offset, isRoot, useHashIndex, b)
                                   ELSE ReadIndexFromStream(d, call.offset, isRoot,
                                                            useHashIndex, b) } })

\* the next n pending calls are made, one after the other (the first half of
\* them, then the rest, which keeps the evaluation's nesting logarithmic)
RECURSIVE MakeCalls(_, _, _, _, _, _)
MakeCalls(d, c, n, deflateCompressed, useHashIndex, b) ==
    IF c.pending = <<>> THEN c
    ELSE IF n = 1
    THEN ConstructsItemsFromIndex(d, [c EXCEPT !.pending = Tail(@)], Head(c.pending),
                                  deflateCompressed, useHashIndex, b)
    ELSE Only({ IF half.pending = <<>> THEN half
                ELSE MakeCalls(d, half, n - n \div 2, deflateCompressed, useHashIndex, b) :
                    half \in {MakeCalls(d, c, n \div 2, deflateCompressed, useHashIndex, b)} })

\* every pending call is made: the constructor's state when the outermost
\* ConstructsItemsFromIndex returns
RECURSIVE MakeAllCalls(_, _, _, _, _, _)
MakeAllCalls(d, c, n, deflateCompressed, useHashIndex, b) ==
    Only({ IF made.pending = <<>> THEN made
           ELSE MakeAllCalls(d, made, 2 * n, deflateCompressed, useHashIndex, b) :
               made \in {MakeCalls(d, c, n, deflateCompressed, useHashIndex, b)} })

\* PakFile::PakFile(path) over the bytes on disk
PakFileConstruct ==
    LET d == fs.data
        size == IF fs.exists THEN Len(d) ELSE -1
        signature == ReadBytes(d, size - FooterSize, 4)
        fileVersion == ReadValueLE(d, size - FooterSize + 4, 2)
        fileFlags == ReadValueLE(d, size - FooterSize + 6, 2)
        rootIndexOffset == ReadValueLE(d, size - FooterSize + 8, 8)
        useHashIndex == HasFlag(fileFlags, HashIndex)
        early == IF ~(size > FooterSize + 8) THEN {"Invalid .pak file"}
                 ELSE IF signature # Signature THEN {"Invalid .pak file"}
                 ELSE IF fileVersion # Version THEN {"Unsupported .pak file version"}
                 ELSE IF ~(rootIndexOffset < size) THEN {"Invalid root index offset"}
                 ELSE {}
    IN IF early # {}
       THEN /\ p_log' = [asserted |-> early, deepest |-> -1, pending |-> <<>>]
            /\ UNCHANGED <<p_path, p_useHashIndex, p_mountPoint, p_rootItems>>
       ELSE \E rootCall \in {Constructing(rootIndexOffset)} :
            \E index \in { MakeAllCalls(d, rootCall, 1,
                                HasFlag(fileFlags, DeflateCompressedIndex),
                                useHashIndex, build) } :
            /\ p_path' = ArchivePath
            /\ p_useHashIndex' = useHashIndex
            /\ p_mountPoint' = index.mountPoint
            /\ p_rootItems' = index.rootItems
            /\ p_log' = [asserted |-> index.asserted, deepest |-> index.deepest,
                         pending |-> <<>>]

\* a PakFile is constructed on the archive once the writer has released it
PakFileOpen ==
    /\ ~p_constructed /\ ~crashed /\ ~fs.beyond
    /\ w_outputStream = "null"
    /\ p_constructed' = TRUE
    /\ PakFileConstruct
    /\ ret' = Ret("PakFile", ArchivePath, TRUE)
    /\ UNCHANGED <<threads, build, fs, wvars, calls, accepted, crashed, queries, dir>>

\* PakFile::IsValid
IsValid == p_path # <<>>

\* The constructor one call of ConstructsItemsFromIndex at a time.
\* PakFile::PakFile(path) up to its call of ConstructsItemsFromIndex: the
\* footer is checked, _path and _useHashIndex are set and the call for the
\* root block is pending; the constructor returns when a check fails
PakFileBegin ==
    /\ ~p_constructed /\ ~crashed /\ ~fs.beyond
    /\ w_outputStream = "null"
    /\ p_path = <<>> /\ p_log.pending = <<>>
    /\ LET d == fs.data
           size == IF fs.exists THEN Len(d) ELSE -1
           signature == ReadBytes(d, size - FooterSize, 4)
           fileVersion == ReadValueLE(d, size - FooterSize + 4, 2)
           fileFlags == ReadValueLE(d, size - FooterSize + 6, 2)
           rootIndexOffset == ReadValueLE(d, size - FooterSize + 8, 8)
           early == IF ~(size > FooterSize + 8) THEN {"Invalid .pak file"}
                    ELSE IF signature # Signature THEN {"Invalid .pak file"}
                    ELSE IF fileVersion # Version THEN {"Unsupported .pak file version"}
                    ELSE IF ~(rootIndexOffset < size) THEN {"Invalid root index offset"}
                    ELSE {}
       IN IF early # {}
          THEN /\ p_constructed' = TRUE
               /\ p_log' = [asserted |-> early, deepest |-> -1, pending |-> <<>>]
               /\ ret' = Ret("PakFile", ArchivePath, TRUE)
               /\ UNCHANGED <<p_path, p_useHashIndex>>
          ELSE /\ p_path' = ArchivePath
               /\ p_useHashIndex' = HasFlag(fileFlags, HashIndex)
               /\ p_log' = [p_log EXCEPT !.pending = Constructing(rootIndexOffset).pending]
               /\ UNCHANGED <<p_constructed, ret>>
    /\ UNCHANGED <<threads, build, fs, wvars, calls, accepted, crashed, queries, dir,
                   p_mountPoint, p_rootItems>>

\* the next pending call of PakFile::ConstructsItemsFromIndex runs up to its
\* first nested call or its return; the constructor returns after the last
ConstructsItemsFromIndexCall ==
    /\ ~p_constructed /\ ~crashed
    /\ p_log.pending # <<>>
    /\ LET d == fs.data
           fileFlags == ReadValueLE(d, Len(d) - FooterSize + 6, 2)
       IN \E c \in { ConstructsItemsFromIndex(d,
                         [rootItems |-> p_rootItems, mountPoint |-> p_mountPoint,
                          asserted |-> p_log.asserted, deepest |-> p_log.deepest,
                          pending |-> Tail(p_log.pending)],
                         Head(p_log.pending),
                         HasFlag(fileFlags, DeflateCompressedIndex),
                         p_useHashIndex, build) } :
            /\ p_rootItems' = c.rootItems
            /\ p_mountPoint' = c.mountPoint
            /\ p_log' = [asserted |-> c.asserted, deepest |-> c.deepest,
                         pending |-> c.pending]
            /\ p_constructed' = (c.pending = <<>>)
            /\ ret' = IF c.pending = <<>> THEN Ret("PakFile", ArchivePath, TRUE) ELSE ret
    /\ UNCHANGED <<threads, build, fs, wvars, calls, accepted, crashed, queries, dir,
                   p_path, p_useHashIndex>>

----------------------------------------------------------------------------
(* PakFile: lookup *)

NullItem == [kind |-> "null", item |-> DefaultItem]
Hang == [kind |-> "hang", item |-> DefaultItem]
Found(item) == [kind |-> "item", item |-> item]

\* std::lower_bound over items with the comparator a.Name < b: the first
\* index of [first, first + count) the halving search stops at
RECURSIVE LowerBoundLoop(_, _, _, _)
LowerBoundLoop(items, name, first, count) ==
    IF count <= 0 THEN first
    ELSE LET step == count \div 2
             it == first + step
         IN IF StrLess(items[it].Name, name)
            THEN LowerBoundLoop(items, name, it + 1, count - (step + 1))
            ELSE LowerBoundLoop(items, name, first, step)

LowerBound(items, name) == LowerBoundLoop(items, name, 1, Len(items))

\* the loop of FindItem still running
Running == [kind |-> "running", item |-> DefaultItem]

\* one iteration of the tree-mode loop of PakFile::FindItem, at being the
\* array searched, the remaining path and what the loop returned so far
FindItemStep(at) ==
    LET separator == findAny(at.path)
        name == IF separator = 0 THEN at.path ELSE prefix(at.path, separator)
    IN IF name = <<>>
       THEN IF separator = 0
            THEN [at EXCEPT !.out = Hang]   \* path is empty and stays empty: the loop never ends
            ELSE [at EXCEPT !.path = suffix(at.path, separator)]
       ELSE Only({ IF foundItem > Len(at.items) \/ at.items[foundItem].Name # name
                   THEN [at EXCEPT !.out = NullItem]
                   ELSE IF separator = 0
                   THEN [at EXCEPT !.out = Found(at.items[foundItem])]
                   ELSE [items |-> at.items[foundItem].ChildItems,
                         path |-> suffix(at.path, separator),
                         out |-> Running] :
                       foundItem \in {LowerBound(at.items, name)} })

\* up to n iterations of the loop, one after the other (the first half of
\* them, then the rest, which keeps the evaluation's nesting logarithmic)
RECURSIVE FindItemSteps(_, _)
FindItemSteps(at, n) ==
    IF at.out # Running THEN at
    ELSE IF n = 1 THEN FindItemStep(at)
    ELSE Only({ FindItemSteps(half, n - n \div 2) :
                    half \in {FindItemSteps(at, n \div 2)} })

\* the tree-mode loop of PakFile::FindItem: what it returns, or Hang.  An
\* iteration that does not end the loop takes a separator off the path
FindItemLoop(items, path) ==
    FindItemSteps([items |-> items, path |-> path, out |-> Running], Len(path) + 1).out

\* the flat-hash branch of PakFile::FindItem
FindItemHashed(items, path) ==
    Only({ Only({ IF foundItem > Len(items) \/ items[foundItem].Name # hashedPath
                  THEN NullItem
                  ELSE Found(items[foundItem]) :
                      foundItem \in {LowerBound(items, hashedPath)} }) :
               hashedPath \in {FileNameToHash(path)} })

\* PakFile::FindItem
FindItem(path) ==
    Only({ IF p_useHashIndex
           THEN FindItemHashed(p_rootItems, trimmed)
           ELSE FindItemLoop(p_rootItems, trimmed) :
               trimmed \in {trimmedPrefix(path)} })

\* PakFile::FileExists and PakFile::DirectoryExists (meaningful when FindItem returns)
FileExists(path) ==
    \E foundItem \in {FindItem(path)} :
        foundItem.kind = "item" /\ ~IsDirectory(foundItem.item)

DirectoryExists(path) ==
    \E foundItem \in {FindItem(path)} :
        foundItem.kind = "item" /\ IsDirectory(foundItem.item)

\* the stream PakFile::OpenFile makes for a compressed item when the build
\* has the codec
CompressedBoundedStream(item, kind) ==
    IF CodecAvailable(build, kind)
    THEN [kind |-> kind, offset |-> item.Offset,
          size |-> item.Size, length |-> item.UncompressedSize]
    ELSE NoStream

\* the second test of OpenFile with the null test alone
NotAFile_NullOnly(foundItem) == foundItem.kind # "item"

\* the second test of PakFile::OpenFile: no item was found, or a directory
NotAFile(foundItem) == foundItem.kind # "item" \/ IsDirectory(foundItem.item)

\* PakFile::OpenFile behind the call of FindItem: the stream for what it found
StreamFor(foundItem) ==
    IF NotAFile(foundItem) THEN NoStream
    ELSE IF HasFlag(foundItem.item.Flags, DeflateCompressed)
    THEN CompressedBoundedStream(foundItem.item, "Deflate")
    ELSE IF HasFlag(foundItem.item.Flags, Lz4Compressed)
    THEN CompressedBoundedStream(foundItem.item, "Lz4")
    ELSE IF HasFlag(foundItem.item.Flags, ZstdCompressed)
    THEN CompressedBoundedStream(foundItem.item, "Zstd")
    ELSE [kind |-> "BoundedFileStream", offset |-> foundItem.item.Offset,
          size |-> foundItem.item.UncompressedSize,
          length |-> foundItem.item.UncompressedSize]

\* PakFile::OpenFile: the stream it returns
OpenFile(path) ==
    IF path = <<>> \/ IsSep(Last(path)) THEN NoStream
    ELSE Only({ StreamFor(foundItem) : foundItem \in {FindItem(path)} })

\* the bytes a stream returned by OpenFile reads from the archive file
StreamBytes(stream) ==
    LET view == SubSeq(fs.data, stream.offset + 1, stream.offset + stream.size)
    IN IF stream.kind = "null" THEN <<>>
       ELSE IF stream.kind = "BoundedFileStream" THEN view
       ELSE Decompress(stream.kind, view)

\* the paths the reader is asked about: the file paths, "a", "d/e", "zz"
QueryPaths == FilePaths \cup { <<97>>, <<100, 47, 101>>, <<122, 122>> }

FileExistsCall(path) ==
    /\ p_constructed /\ ~crashed
    /\ queries < MaxQueries
    /\ queries' = queries + 1
    /\ \E foundItem \in {FindItem(path)} :
           /\ foundItem.kind # "hang"
           /\ ret' = Ret("FileExists", path,
                         foundItem.kind = "item" /\ ~IsDirectory(foundItem.item))
    /\ UNCHANGED <<threads, build, fs, wvars, calls, accepted, crashed, pvars, dir>>

DirectoryExistsCall(path) ==
    /\ p_constructed /\ ~crashed
    /\ queries < MaxQueries
    /\ queries' = queries + 1
    /\ \E foundItem \in {FindItem(path)} :
           /\ foundItem.kind # "hang"
           /\ ret' = Ret("DirectoryExists", path,
                         foundItem.kind = "item" /\ IsDirectory(foundItem.item))
    /\ UNCHANGED <<threads, build, fs, wvars, calls, accepted, crashed, pvars, dir>>

OpenFileCall(path) ==
    /\ p_constructed /\ ~crashed
    /\ queries < MaxQueries
    /\ queries' = queries + 1
    /\ \E stream \in {OpenFile(path)} :
           ret' = [op |-> "OpenFile", path |-> path, ok |-> stream.kind # "null",
                   stream |-> stream]
    /\ UNCHANGED <<threads, build, fs, wvars, calls, accepted, crashed, pvars, dir>>

----------------------------------------------------------------------------
(* PakFile::Directory *)

\* FileSystem::EnumerationOptions
EnumerationOptions == SUBSET {"SkipDirectories", "SkipFiles"}

\* what an uninitialized byte of the path buffer may hold
Garbage == {0, 63}

\* a store of byte v at _path[pos]; a store outside the buffer is recorded
StoreByte(c, pos, v) ==
    IF pos >= 0 /\ pos < MaxPathLength
    THEN [c EXCEPT !.path[pos + 1] = v]
    ELSE [c EXCEPT !.overflow = TRUE]

\* stores of bytes[1..n] at _path[pos], _path[pos + 1], ...
RECURSIVE StoreBytes(_, _, _, _)
StoreBytes(c, pos, bytes, n) ==
    IF n <= 0 THEN c
    ELSE StoreBytes(StoreByte(c, pos, Head(bytes)), pos + 1, Tail(bytes), n - 1)

\* the C string that starts at _path[pos]: the bytes before the first NUL
RECURSIVE CStringFrom(_, _)
CStringFrom(buffer, pos) ==
    IF pos >= Len(buffer) \/ buffer[pos + 1] = 0 THEN <<>>
    ELSE <<buffer[pos + 1]>> \o CStringFrom(buffer, pos + 1)

\* PakFile::Directory::operator*
Entry(c) == CStringFrom(c.path, 0)

\* isEnd1 of PakFile::Directory::operator==: the cursor equals the end cursor
AtEnd(c) == c.path[1] = 0

\* whether Increment skips the item under the cursor's options
Skipped(options, item) ==
    \/ "SkipDirectories" \in options /\ IsDirectory(item)
    \/ "SkipFiles" \in options /\ ~IsDirectory(item)

\* the first index from i on (0-based) that Increment does not skip
RECURSIVE NextQualifying(_, _, _)
NextQualifying(items, options, i) ==
    IF i >= Len(items) THEN i
    ELSE IF Skipped(options, items[i + 1]) THEN NextQualifying(items, options, i + 1)
    ELSE i

\* strncpy(dest, fileName.data(), std::min(space, fileName.size()) - 1) followed
\* by _path[sizeof(_path) - 1] = '\0': the count is unsigned, so a minimum of 0
\* wraps around and the padding runs over the end of the buffer
CopyNamePosix(c, fileName) ==
    LET space == MaxPathLength - c.fileNamePart
        \* sizeof(_path) - (_fileNamePart - _path) is a std::size_t: with
        \* _fileNamePart behind the buffer it wraps around to a huge value
        least == IF space >= 0 /\ space < Len(fileName) THEN space ELSE Len(fileName)
        copied == IF least = 0
                  THEN StoreBytes(c, c.fileNamePart,
                                  fileName \o Zeros(MaxPathLength + 1), MaxPathLength + 1)
                  ELSE StoreBytes(c, c.fileNamePart, fileName, least - 1)
    IN StoreByte(copied, MaxPathLength - 1, 0)

\* strncpy_s(dest, space, fileName.data(), fileName.size()): the name and a NUL
\* when they fit, else the destination is emptied and the constraint handler runs
CopyNameWindows(c, fileName) ==
    LET space == MaxPathLength - c.fileNamePart
    IN IF space < 0 \/ Len(fileName) < space
       THEN StoreBytes(c, c.fileNamePart, Append(fileName, 0), Len(fileName) + 1)
       ELSE [StoreByte(c, c.fileNamePart, 0) EXCEPT !.fault = TRUE]

\* the copy of the child's name behind the directory prefix, as the build has it
CopyName(c, fileName, b) ==
    IF b.windows THEN CopyNameWindows(c, fileName) ELSE CopyNamePosix(c, fileName)

\* PakFile::Directory::Impl::Increment
Increment(c, b) ==
    LET index == NextQualifying(c.childItems, c.options, c.index)
    IN IF index >= Len(c.childItems)
       THEN [StoreByte(c, 0, 0) EXCEPT !.index = index]
       ELSE [CopyName(c, c.childItems[index + 1].Name, b) EXCEPT !.index = index + 1]

\* the test at the top of Impl::Open: no enumeration over a hash index
CannotEnumerate_Never == FALSE

CannotEnumerate == p_useHashIndex

\* PakFile::Directory::Impl::Open on a cursor whose buffer holds `fill`
\* (meaningful when FindItem returns)
DirectoryOpen(path, options, fill, b) ==
    LET fresh == [open |-> TRUE, arg |-> path, options |-> options,
                  path |-> [i \in 1..MaxPathLength |-> fill], fileNamePart |-> 0,
                  childItems |-> <<>>, index |-> 0,
                  overflow |-> FALSE, fault |-> FALSE, found |-> FALSE]
        closed == StoreByte(fresh, 0, 0)
        parentItem == FindItem(path)
        childItems == IF path = <<>> THEN p_rootItems ELSE parentItem.item.ChildItems
        pathLength == Len(path)
        copied == StoreBytes(fresh, 0, path, pathLength)
        prefixed ==
            IF pathLength > 0
            THEN IF IsSep(path[pathLength])
                 THEN [StoreByte(StoreByte(copied, pathLength - 1, PathSeparator(b)),
                                 pathLength, 0)
                          EXCEPT !.fileNamePart = pathLength]
                 ELSE [StoreByte(StoreByte(copied, pathLength, PathSeparator(b)),
                                 pathLength + 1, 0)
                          EXCEPT !.fileNamePart = pathLength + 1]
            ELSE closed
    IN IF CannotEnumerate THEN closed
       ELSE IF path # <<>> /\ parentItem.kind # "item" THEN closed
       ELSE IF childItems = <<>> THEN [closed EXCEPT !.found = TRUE]
       ELSE Only({ Increment(c, b) :
                       c \in {[prefixed EXCEPT !.childItems = childItems, !.found = TRUE]} })

\* the entries a consumer has read so far, appended to when the cursor is not
\* at the end
Yield(c, yielded) == IF AtEnd(c) THEN yielded ELSE Append(yielded, Entry(c))

\* the directory paths a cursor is opened on: "", "t", "t/u", "zz"
DirectoryPaths == { <<>>, <<116>>, <<116, 47, 117>>, <<122, 122>> }

\* PakFile::Directory::Directory(pakFile, path, options)
DirectoryOpenCall(path, options) ==
    /\ p_constructed /\ ~crashed
    /\ p_useHashIndex \/ path = <<>> \/ FindItem(path).kind # "hang"
    /\ \E fill \in Garbage :
           \E c \in {DirectoryOpen(path, options, fill, build)} :
               dir' = [cursor |-> c, yielded |-> Yield(c, <<>>), ended |-> AtEnd(c)]
    /\ ret' = Ret("Directory", path, TRUE)
    /\ UNCHANGED <<threads, build, fs, wvars, calls, accepted, crashed, queries, pvars>>

\* PakFile::Directory::operator++
DirectoryIncrementCall ==
    /\ p_constructed /\ ~crashed
    /\ dir # NoDir
    /\ \E c \in {Increment(dir.cursor, build)} :
          dir' = [cursor |-> c,
                  yielded |-> IF dir.ended THEN dir.yielded ELSE Yield(c, dir.yielded),
                  ended |-> dir.ended \/ AtEnd(c)]
    /\ ret' = Ret("operator++", dir.cursor.arg, TRUE)
    /\ UNCHANGED <<threads, build, fs, wvars, calls, accepted, crashed, queries, pvars>>

----------------------------------------------------------------------------
(* Reader threads on one PakFile *)

\* what a search leaves in the array it went through when it empties it
Searched_Emptied(items) == <<>>

\* what std::lower_bound leaves in the array it went through: FindItem has
\* the items through pointers to non-const, and stores nothing through them
Searched(items) == items

\* a thread inside FindItem: rest is the path still to match, items the pointer
\* to the array to search, found the pointer to the item when pc is "found"
Finding(rest) == [pc |-> "find", rest |-> rest, items |-> <<>>, found |-> <<>>]

\* one pass of the loop of PakFile::FindItem made by a thread, the arrays
\* being read through the pointer in the tree as it is now
FindPass(root, f) ==
    LET separator == findAny(f.rest)
        name == IF separator = 0 THEN f.rest ELSE prefix(f.rest, separator)
        array == ItemsAt(root, f.items)
        foundItem == LowerBound(array, name)
    IN IF name = <<>>
       THEN IF separator = 0 THEN [f EXCEPT !.pc = "spin"]
            ELSE [f EXCEPT !.rest = suffix(f.rest, separator)]
       ELSE IF foundItem > Len(array) \/ array[foundItem].Name # name
       THEN [f EXCEPT !.pc = "null"]
       ELSE IF separator = 0
       THEN [f EXCEPT !.pc = "found", !.found = Append(f.items, foundItem)]
       ELSE [f EXCEPT !.rest = suffix(f.rest, separator),
                      !.items = Append(f.items, foundItem)]

\* the flat-hash branch of PakFile::FindItem made by a thread
FindHashed(root, f) ==
    LET hashedPath == FileNameToHash(f.rest)
        foundItem == LowerBound(root, hashedPath)
    IN IF foundItem > Len(root) \/ root[foundItem].Name # hashedPath
       THEN [f EXCEPT !.pc = "null"]
       ELSE [f EXCEPT !.pc = "found", !.found = <<foundItem>>]

\* what a finished FindItem returned
Returned(root, f) ==
    IF f.pc = "found" THEN Found(ItemAt(root, f.found)) ELSE NullItem

\* the operations of the threads and the paths they are given:
\* "x", "a", "a/x", "a//x", "zz"
ThreadOperations == {"FileExists", "DirectoryExists", "OpenFile"}

ThreadPaths == { <<120>>, <<97>>, <<97, 47, 120>>, <<97, 47, 47, 120>>, <<122, 122>> }

\* what the operation returns when FindItem returned foundItem
ResultOf(op, foundItem) ==
    CASE op = "FileExists" -> foundItem.kind = "item" /\ ~IsDirectory(foundItem.item)
      [] op = "DirectoryExists" -> foundItem.kind = "item" /\ IsDirectory(foundItem.item)
      [] op = "OpenFile" -> StreamFor(foundItem)
      [] op = "Directory::Open" -> foundItem.kind = "item"

\* the operation run on its own, from its call to its return
RunAlone(op, path) ==
    CASE op = "FileExists" -> FileExists(path)
      [] op = "DirectoryExists" -> DirectoryExists(path)
      [] op = "OpenFile" -> OpenFile(path)

\* every entry a cursor yields from where it is to the end
RECURSIVE Enumerated(_, _, _)
Enumerated(c, yielded, b) ==
    IF AtEnd(c) THEN yielded
    ELSE Only({ Enumerated(next, Append(yielded, Entry(c)), b) :
                    next \in {Increment(c, b)} })

\* FindItem made by one thread from where it is to its end
RECURSIVE FindRun(_, _, _)
FindRun(root, useHashIndex, f) ==
    IF f.pc # "find" THEN f
    ELSE Only({ FindRun(root, useHashIndex, next) :
                    next \in { IF useHashIndex THEN FindHashed(root, f)
                               ELSE FindPass(root, f) } })

\* the pointer to the array a cursor over path is a view of: the root array,
\* or the ChildItems of the item FindItem returns
ViewOf(path) ==
    IF path = <<>> THEN <<>>
    ELSE FindRun(p_rootItems, p_useHashIndex, Finding(trimmedPrefix(path))).found

ThreadIds == 1..MaxThreads

IdleThread == [pc |-> "idle"]

\* the PakFile is shared with the reader threads
ThreadsStart ==
    /\ p_constructed /\ IsValid /\ ~crashed
    /\ threads = <<>>
    /\ threads' = [t \in ThreadIds |-> IdleThread]
    /\ ret' = Ret("threads", <<>>, TRUE)
    /\ UNCHANGED <<build, fs, wvars, calls, accepted, crashed, queries, pvars, dir>>

\* thread t calls FileExists, DirectoryExists or OpenFile.  built is the
\* PakFile as the call finds it, alone what the call returns when nothing
\* else runs
ThreadCall(t, op, path) ==
    /\ threads # <<>> /\ threads[t].pc = "idle"
    /\ threads' = [threads EXCEPT ![t] =
           [op |-> op, path |-> path,
            built |-> <<p_mountPoint, p_rootItems>>,
            alone |-> RunAlone(op, path),
            result |-> NoStream,
            yielded |-> <<>>, cursor |-> NoDir.cursor, view |-> <<>>]
           @@ (IF op = "OpenFile" /\ (path = <<>> \/ IsSep(Last(path)))
               THEN [Finding(<<>>) EXCEPT !.pc = "done"]
               ELSE Finding(trimmedPrefix(path)))]
    /\ UNCHANGED <<build, fs, wvars, calls, accepted, crashed, ret, queries, pvars, dir>>

\* thread t makes one pass of the loop of FindItem (the whole search of the
\* flat-hash branch), and returns from its operation when FindItem returns
ThreadFind(t) ==
    /\ threads # <<>> /\ threads[t].pc = "find"
    /\ \E f \in { IF p_useHashIndex THEN FindHashed(p_rootItems, threads[t])
                    ELSE FindPass(p_rootItems, threads[t]) } :
       \E left \in { SetItemsAt(p_rootItems, threads[t].items,
                                 Searched(ItemsAt(p_rootItems, threads[t].items))) } :
           /\ p_rootItems' = left
           /\ threads' = [threads EXCEPT ![t] =
                  IF f.pc \in {"found", "null"}
                  THEN [f EXCEPT !.pc = "done",
                                 !.result = ResultOf(f.op, Returned(left, f))]
                  ELSE f]
    /\ UNCHANGED <<build, fs, wvars, calls, accepted, crashed, ret, queries,
                   p_constructed, p_path, p_useHashIndex, p_mountPoint, p_log, dir>>

\* thread t constructs a cursor over a path that is not empty, in tree mode:
\* Impl::Open up to the return of its call of FindItem
ThreadOpenFind(t, path) ==
    /\ threads # <<>> /\ threads[t].pc = "idle"
    /\ ~p_useHashIndex /\ path # <<>>
    /\ threads' = [threads EXCEPT ![t] =
           [op |-> "Directory::Open", path |-> path,
            built |-> <<p_mountPoint, p_rootItems>>,
            alone |-> FindItem(path).kind = "item",
            result |-> NoStream,
            yielded |-> <<>>, cursor |-> NoDir.cursor, view |-> <<>>]
           @@ Finding(trimmedPrefix(path))]
    /\ UNCHANGED <<build, fs, wvars, calls, accepted, crashed, ret, queries, pvars, dir>>

\* thread t constructs a cursor over path: Impl::Open, with its FindItem and
\* its first Increment
ThreadOpenDirectory(t, path) ==
    /\ threads # <<>> /\ threads[t].pc = "idle"
    /\ p_useHashIndex \/ path = <<>> \/ FindItem(path).kind # "hang"
    /\ \E fill \in Garbage :
       \E c \in {DirectoryOpen(path, {}, fill, build)} :
           threads' = [threads EXCEPT ![t] =
               [pc |-> IF AtEnd(c) THEN "done" ELSE "enumerate",
                op |-> "Directory", path |-> path,
                built |-> <<p_mountPoint, p_rootItems>>,
                alone |-> Enumerated(c, <<>>, build),
                result |-> NoStream,
                yielded |-> Yield(c, <<>>), cursor |-> c, view |-> ViewOf(path),
                rest |-> <<>>, items |-> <<>>, found |-> <<>>]]
    /\ UNCHANGED <<build, fs, wvars, calls, accepted, crashed, ret, queries, pvars, dir>>

\* thread t increments its cursor: Impl::Increment reads the items through
\* the view, that is in the PakFile's array as it is now
ThreadIncrement(t) ==
    /\ threads # <<>> /\ threads[t].pc = "enumerate"
    /\ \E c \in { Increment([threads[t].cursor EXCEPT
                                  !.childItems = ItemsAt(p_rootItems, threads[t].view)],
                              build) } :
           threads' = [threads EXCEPT ![t] =
               [@ EXCEPT !.cursor = c,
                         !.yielded = Yield(c, @),
                         !.pc = IF AtEnd(c) THEN "done" ELSE "enumerate"]]
    /\ UNCHANGED <<build, fs, wvars, calls, accepted, crashed, ret, queries, pvars, dir>>

----------------------------------------------------------------------------
\* the state after PakWriter's constructor, for every build and index mode
Started ==
    /\ calls = 0
    /\ accepted = <<>>
    /\ crashed = FALSE
    /\ ret = NoRet
    /\ queries = 0
    /\ p_constructed = FALSE
    /\ p_path = <<>>
    /\ p_useHashIndex = FALSE
    /\ p_mountPoint = <<>>
    /\ p_rootItems = <<>>
    /\ p_log = [asserted |-> {}, deepest |-> -1, pending |-> <<>>]
    /\ dir = NoDir
    /\ threads = <<>>

Init ==
    /\ \E b \in Builds, useHashIndex \in BOOLEAN, useCompressedIndex \in BOOLEAN :
           WriterConstructed(b, useHashIndex, useCompressedIndex, FALSE)
    /\ Started

Next ==
    \/ \E in \in Inputs, path \in AddPaths : AddFile(StreamOf(in.content), path, in.pc)
    \/ Finalize
    \/ Destroy
    \/ PakFileOpen
    \/ \E path \in QueryPaths : FileExistsCall(path)
    \/ \E path \in QueryPaths : DirectoryExistsCall(path)
    \/ \E path \in QueryPaths : OpenFileCall(path)

Spec == Init /\ [][Next]_vars

\* Directory enumeration over archives of files with longer names:
\* "t/he", "t/en", "t/u/v", "rd"
DirFilePaths ==
    { <<116, 47, 104, 101>>, <<116, 47, 101, 110>>, <<116, 47, 117, 47, 118>>,
      <<114, 100>> }

InitDir ==
    /\ \E b \in Builds, useHashIndex \in BOOLEAN :
           WriterConstructed(b, useHashIndex, FALSE, FALSE)
    /\ Started

NextDir ==
    \/ \E path \in DirFilePaths : AddFile(StreamOf(<<7>>), path, "None")
    \/ Finalize
    \/ PakFileOpen
    \/ \E path \in DirectoryPaths, options \in EnumerationOptions :
           DirectoryOpenCall(path, options)
    \/ DirectoryIncrementCall

SpecDir == InitDir /\ [][NextDir]_vars

\* Directory enumeration with prefixes and names around the size of the path
\* buffer: the files "d//v", "ab/c", "abcde/xyz" and "abcdefgh/x", and cursors
\* opened on "", "d", "ab", "abcde" and "abcdefgh"
BufferFilePaths ==
    { <<100, 47, 47, 118>>, <<97, 98, 47, 99>>,
      <<97, 98, 99, 100, 101, 47, 120, 121, 122>>,
      <<97, 98, 99, 100, 101, 102, 103, 104, 47, 120>> }

BufferDirectoryPaths ==
    { <<>>, <<100>>, <<97, 98>>, <<97, 98, 99, 100, 101>>,
      <<97, 98, 99, 100, 101, 102, 103, 104>> }

NextBuffer ==
    \/ \E path \in BufferFilePaths : AddFile(StreamOf(<<7>>), path, "None")
    \/ Finalize
    \/ PakFileOpen
    \/ \E path \in BufferDirectoryPaths, options \in EnumerationOptions :
           DirectoryOpenCall(path, options)
    \/ DirectoryIncrementCall

SpecBuffer == InitDir /\ [][NextBuffer]_vars

\* The writer alone, over an output path that did or did not name a file
\* before, and with streams of 2^31 bytes and more among its inputs
InitWriter ==
    /\ \E b \in Builds, useHashIndex \in BOOLEAN, useCompressedIndex \in BOOLEAN,
          alreadyExisted \in BOOLEAN :
           WriterConstructed(b, useHashIndex, useCompressedIndex, alreadyExisted)
    /\ Started

NextWriter ==
    \/ \E in \in Inputs, path \in AddPaths : AddFile(StreamOf(in.content), path, in.pc)
    \/ \E in \in SparseInputs, path \in AddPaths : AddFile(in.stream, path, in.pc)
    \/ \E value \in MountPoints : SetMountPoint(value)
    \/ Finalize
    \/ Destroy

SpecWriter == InitWriter /\ [][NextWriter]_vars

\* The writer through its lifetime, with "x" and "a/b" to add and IsValid
\* called at any time
NextLifetime ==
    \/ \E in \in Inputs, path \in { <<120>>, <<97, 47, 98>> } :
           AddFile(StreamOf(in.content), path, in.pc)
    \/ PakWriterIsValid
    \/ Finalize
    \/ Destroy

SpecLifetime == InitWriter /\ [][NextLifetime]_vars

\* The writer and a PakFile over paths of many directory components: the
\* file "f" beneath n directories "a", for n around MaxDepth, and "x"
Chain(n) == [i \in 1..(2 * n + 1) |-> IF i = 2 * n + 1 THEN 102
                                       ELSE IF i % 2 = 1 THEN 97 ELSE 47]

DeepPaths == { Chain(1), Chain(MaxDepth - 1), Chain(MaxDepth), Chain(MaxDepth + 1), <<120>> }

NextDeep ==
    \/ \E path \in DeepPaths : AddFile(StreamOf(<<7>>), path, "None")
    \/ Finalize
    \/ PakFileOpen

\* the writer constructed with a tree index
InitDeep == Init /\ ~w_useHashIndex

SpecDeep == InitDeep /\ [][NextDeep]_vars

\* The writer with a mount point, followed by a PakFile constructed on what
\* it wrote
NextRoundTrip ==
    \/ \E in \in Inputs, path \in AddPaths : AddFile(StreamOf(in.content), path, in.pc)
    \/ \E value \in MountPoints : SetMountPoint(value)
    \/ Finalize
    \/ PakFileOpen

SpecRoundTrip == Init /\ [][NextRoundTrip]_vars

\* FileNameToHash alone, over every file name of up to MaxNameLength bytes
\* out of '/', '\\', 'A', 'Z', 'a', '[' and 0xC8
NameBytes == {47, 92, 65, 90, 97, 91, 200}

FileNames == UNION { [1..n -> NameBytes] : n \in 0..MaxNameLength }

InitHash ==
    /\ \E b \in Builds : b.zlib /\ WriterConstructed(b, TRUE, FALSE, FALSE)
    /\ calls = 0
    /\ accepted = <<>>
    /\ crashed = FALSE
    /\ \E fileName \in FileNames : ret = Ret("none", fileName, FALSE)
    /\ queries = 0
    /\ p_constructed = FALSE
    /\ p_path = <<>>
    /\ p_useHashIndex = FALSE
    /\ p_mountPoint = <<>>
    /\ p_rootItems = <<>>
    /\ p_log = [asserted |-> {}, deepest |-> -1, pending |-> <<>>]
    /\ dir = NoDir
    /\ threads = <<>>

\* FileNameToHash(fileName): the normalized bytes and the hash are kept
FileNameToHashCall ==
    /\ ret.op = "none"
    /\ ret' = [op |-> "FileNameToHash", path |-> ret.path, ok |-> TRUE,
               stream |-> NoStream,
               normalized |-> NormalizedFileName(ret.path),
               hash |-> FileNameToHash(ret.path)]
    /\ UNCHANGED <<threads, build, fs, wvars, calls, accepted, crashed, queries, pvars, dir>>

NextHash == FileNameToHashCall

SpecHash == InitHash /\ [][NextHash]_vars

\* Archives that no PakWriter produced, as PakFile::PakFile may find them on
\* disk: one byte of payload at offset 8, an index block at offset 9, a footer
Payload == <<7>>

FileX == [DefaultItem EXCEPT !.Name = <<120>>, !.Offset = 8, !.UncompressedSize = 1]

HashedX == [FileX EXCEPT !.Name = FileNameToHash(<<120>>)]

DirectoryA(offset) == [DefaultItem EXCEPT !.Name = <<97>>, !.Flags = Directory,
                                          !.Offset = offset]

RootAt == Len(OptionalHeader) + Len(Payload)

Archive(blocks, signature, version, fileFlags, rootIndexOffset) ==
    OptionalHeader \o Payload \o blocks \o signature \o WriteValueLE(version, 2)
        \o WriteValueLE(fileFlags, 2) \o WriteValueLE(rootIndexOffset, 8)

\* mount point "m", one file "x"
WellFormed ==
    Archive(RootBlock(<<109>>, <<FileX>>, FALSE), Signature, Version, 0, RootAt)

WellFormedHashed ==
    Archive(RootBlock(<<109>>, <<HashedX>>, TRUE), Signature, Version, HashIndex, RootAt)

WellFormedCompressed ==
    Archive(Compress("Deflate", RootBlock(<<109>>, <<FileX>>, FALSE)),
            Signature, Version, DeflateCompressedIndex, RootAt)

\* directory "a" (block at RootAt) holding "x"; the root block follows it
WellFormedNested ==
    Archive(<<1>> \o WriteItemDescription(FileX, FALSE)
                \o RootBlock(<<109>>, <<DirectoryA(RootAt)>>, FALSE),
            Signature, Version, 0, RootAt + 1 + Len(WriteItemDescription(FileX, FALSE)))

\* header and footer only: FooterSize + 8 bytes
TooSmall == OptionalHeader \o Footer(FALSE, FALSE, [zlib |-> FALSE], 0)

BadSignature ==
    Archive(RootBlock(<<109>>, <<FileX>>, FALSE), <<80, 75, 3, 4>>, Version, 0, RootAt)

BadVersion ==
    Archive(RootBlock(<<109>>, <<FileX>>, FALSE), Signature, Version + 1, 0, RootAt)

BadRootOffset ==
    Archive(RootBlock(<<109>>, <<FileX>>, FALSE), Signature, Version, 0,
            Len(WellFormed))

\* the root block announces a mount point of INT16_MAX bytes
LongMountPoint ==
    Archive(WriteVariableUint(INT16_MAX) \o <<109, 1>> \o WriteItemDescription(FileX, FALSE),
            Signature, Version, 0, RootAt)

\* mount point "m", two items: "x", then one whose name length is INT32_MAX
LongName ==
    Archive(<<1, 109, 2>> \o WriteItemDescription(FileX, FALSE)
                \o <<0>> \o WriteVariableUint(INT32_MAX),
            Signature, Version, 0, RootAt)

\* the block of directory "a" is the root block without its mount point, so
\* the directory's Offset leads to a block that holds the directory again
SelfReferential ==
    Archive(<<0, 1>> \o WriteItemDescription(DirectoryA(RootAt + 1), FALSE),
            Signature, Version, 0, RootAt)

\* the block of directory "a" holds a directory whose block holds a directory
\* whose Offset leads back to the block of "a"
AncestorReferential ==
    Only({ Archive(<<1>> \o WriteItemDescription(DirectoryA(RootAt + n), FALSE)
                       \o <<1>> \o WriteItemDescription(DirectoryA(RootAt), FALSE)
                       \o RootBlock(<<109>>, <<DirectoryA(RootAt)>>, FALSE),
                   Signature, Version, 0, RootAt + 2 * n) :
               n \in {1 + Len(WriteItemDescription(DirectoryA(RootAt), FALSE))} })

\* mount point "m", one file "x" that carries a compression flag: one stored
\* byte for three bytes of content
Stored(flag) ==
    Archive(RootBlock(<<109>>, <<[FileX EXCEPT !.Flags = flag, !.Size = 1,
                                               !.UncompressedSize = 3]>>, FALSE),
            Signature, Version, 0, RootAt)

StoredArchives ==
    { Stored(DeflateCompressed), Stored(Lz4Compressed), Stored(Lzma2Compressed),
      Stored(ZstdCompressed) }

CraftedArchives ==
    { WellFormed, WellFormedHashed, WellFormedCompressed, WellFormedNested, TooSmall,
      BadSignature, BadVersion, BadRootOffset, LongMountPoint, LongName,
      SelfReferential, AncestorReferential } \cup StoredArchives

\* no PakWriter is involved: the file is on disk already
InitOpen ==
    /\ build \in Builds
    /\ \E data \in CraftedArchives :
           fs = [exists |-> TRUE, data |-> data, beyond |-> FALSE]
    /\ w_alive = FALSE
    /\ w_finalized = FALSE
    /\ w_useHashIndex = FALSE
    /\ w_useCompressedIndex = FALSE
    /\ w_alreadyExisted = TRUE
    /\ w_outputStream = "null"
    /\ w_mountPoint = <<>>
    /\ w_rootItems = <<>>
    /\ Started

NextOpen ==
    \/ PakFileOpen
    \/ \E path \in QueryPaths : FileExistsCall(path)
    \/ \E path \in QueryPaths : DirectoryExistsCall(path)
    \/ \E path \in QueryPaths : OpenFileCall(path)

SpecOpen == InitOpen /\ [][NextOpen]_vars

\* The constructor alone over these archives, call by call; the thread that
\* constructs the PakFile keeps running
NextConstruct ==
    \/ PakFileBegin
    \/ ConstructsItemsFromIndexCall

SpecConstruct == InitOpen /\ [][NextConstruct]_vars /\ WF_vars(NextConstruct)

\* Lookups over these archives, one pass of FindItem's loop at a time, with
\* the paths "", "/", "a", "a/", "a/x", "x/", "zz/"; a thread that is inside
\* FindItem keeps running
FindPaths ==
    { <<>>, <<47>>, <<97>>, <<97, 47>>, <<97, 47, 120>>, <<120, 47>>, <<122, 122, 47>> }

NextFind ==
    \/ PakFileOpen
    \/ ThreadsStart
    \/ \E t \in ThreadIds, op \in {"FileExists", "DirectoryExists"}, path \in FindPaths :
           ThreadCall(t, op, path)
    \/ \E t \in ThreadIds, path \in FindPaths : ThreadOpenFind(t, path)
    \/ \E t \in ThreadIds : ThreadFind(t)

SpecFind ==
    InitOpen /\ [][NextFind]_vars /\ \A t \in ThreadIds : WF_vars(ThreadFind(t))

\* Reader threads on a PakFile constructed over one of these archives
NextThreads ==
    \/ PakFileOpen
    \/ ThreadsStart
    \/ \E t \in ThreadIds, op \in ThreadOperations, path \in ThreadPaths :
           ThreadCall(t, op, path)
    \/ \E t \in ThreadIds : ThreadFind(t)
    \/ \E t \in ThreadIds, path \in {<<>>, <<97>>} : ThreadOpenDirectory(t, path)
    \/ \E t \in ThreadIds : ThreadIncrement(t)

SpecThreads == InitOpen /\ [][NextThreads]_vars

----------------------------------------------------------------------------
(* Claims *)

\* the archive was finalized with files and a PakFile was constructed on it
Reopened == p_constructed /\ w_finalized /\ accepted # <<>>

\* every array Finalize serialized: the root array and the ChildItems of every
\* queued directory
WrittenArrays ==
    {w_rootItems} \cup
        {ItemsAt(w_rootItems, QueuedDirectories(w_rootItems)[q]) :
             q \in 1..Len(QueuedDirectories(w_rootItems))}

StrictlyAscending(items) ==
    \A i \in 1..(Len(items) - 1) : StrLess(items[i].Name, items[i + 1].Name)

\* C1: in tree mode, after AddFile calls, Finalize and reopening, FileExists(p)
\* is true for every path p for which AddFile returned true
C1_FileExistsAfterReopen ==
    (Reopened /\ ~w_useHashIndex) =>
        \A i \in 1..Len(accepted) :
            /\ FindItem(accepted[i].path).kind # "hang"
            /\ FileExists(accepted[i].path)

\* C2: for every file added successfully, OpenFile(p) on the reopened archive
\* is a view over the byte range AddFile wrote -- [Offset, Offset+UncompressedSize)
\* uncompressed, [Offset, Offset+Size) with logical length UncompressedSize
\* compressed -- and reads back the original bytes
C2_OpenFileReadsWhatWasAdded ==
    Reopened =>
        \A i \in 1..Len(accepted) :
            LET a == accepted[i]
                stream == OpenFile(a.path)
            IN /\ stream.kind # "null"
               /\ stream.offset = a.Offset
               /\ stream.size = a.stored
               /\ stream.length = Len(a.content)
               /\ (stream.kind = "BoundedFileStream") = ~a.compressed
               /\ StreamBytes(stream) = a.content

\* C3: an AddFile with a path that was already added returns false and leaves
\* the item tree and the output stream as they were, in either index mode
C3_DuplicateAddRejected ==
    [][(ret'.op = "AddFile" /\ calls' = calls + 1
            /\ \E i \in 1..Len(accepted) : accepted[i].path = ret'.path)
          => (~ret'.ok /\ w_rootItems' = w_rootItems /\ fs' = fs)]_vars

\* C4: after Finalize every items array written to the archive is strictly
\* ascending by Name, in either index mode
C4_WrittenArraysStrictlyAscending ==
    (w_finalized /\ accepted # <<>>) =>
        \A items \in WrittenArrays : StrictlyAscending(items)

\* C5: a Finalize call (explicit or by the destructor) on a writer that is
\* already finalized writes nothing and changes no state
C5_SecondFinalizeIsNoOp ==
    [][(w_finalized /\ ret'.op \in {"Finalize", "~PakWriter"})
          => (/\ fs' = fs
              /\ w_rootItems' = w_rootItems
              /\ w_outputStream' = w_outputStream
              /\ w_finalized' = w_finalized
              /\ crashed' = crashed)]_vars

\* a second Finalize has been made on a writer that wrote an archive
C5_Witness ==
    /\ ret.op \in {"Finalize", "~PakWriter"} /\ ret.ok
    /\ w_finalized /\ fs.exists /\ Len(accepted) = 2

DepthMessage == "Maximum directory structure depth reached"

\* C6: a PakFile constructed on an archive whose chain of directory blocks
\* goes past MaxDepth levels reports IsValid() = false and holds no items
C6_DeepChainFailsToOpen ==
    (p_constructed /\ DepthMessage \in p_log.asserted)
        => (~IsValid /\ p_rootItems = <<>>)

\* C7: when a validation of the constructor or of the index readers failed,
\* IsValid() is false and the mount point and the root array are empty
C7_FailedValidationLeavesNothing ==
    (p_constructed /\ p_log.asserted \ {DepthMessage} # {})
        => (~IsValid /\ p_mountPoint = <<>> /\ p_rootItems = <<>>)

\* C8: in flat-hash mode, after AddFile calls, Finalize and reopening,
\* FileExists(p) is true for every path p that AddFile accepted
C8_HashedFileExistsAfterReopen ==
    (Reopened /\ w_useHashIndex) =>
        \A i \in 1..Len(accepted) : FileExists(accepted[i].path)

\* C9: for a PakFile opened in flat-hash mode a directory cursor over any path
\* is at the end as soon as it is opened and yields no entry
C9_HashedEnumerationIsEmpty ==
    (dir # NoDir /\ p_useHashIndex) => (AtEnd(dir.cursor) /\ dir.yielded = <<>>)

\* a cursor was opened on the root of a flat-hash archive that holds files
C9_Witness ==
    /\ dir # NoDir /\ p_useHashIndex /\ IsValid
    /\ Len(p_rootItems) = 2
    /\ dir.cursor.arg = <<>> /\ ret.op = "Directory"

\* the children a cursor over `path` has to yield: those its options do not skip
RECURSIVE Qualifying(_, _)
Qualifying(items, options) ==
    IF items = <<>> THEN <<>>
    ELSE (IF Skipped(options, Head(items)) THEN <<>> ELSE <<Head(items)>>)
             \o Qualifying(Tail(items), options)

ChildrenOf(path) ==
    IF path = <<>> THEN p_rootItems ELSE FindItem(path).item.ChildItems

\* the entries of a complete enumeration: the directory prefix, then each name
ExpectedEntries(path, options) ==
    LET children == Qualifying(ChildrenOf(path), options)
        dirPrefix == IF path = <<>> THEN <<>> ELSE Append(path, PathSeparator(build))
    IN [i \in 1..Len(children) |-> dirPrefix \o children[i].Name]

IsPrefixOf(s, t) == Len(s) <= Len(t) /\ s = SubSeq(t, 1, Len(s))

\* C10: in tree mode, enumerating an existing directory yields one entry per
\* child that passes the filters, in ascending Name order, each entry being
\* the directory prefix followed by the child's complete name
C10_EnumerationYieldsChildren ==
    (/\ dir # NoDir /\ ~p_useHashIndex /\ IsValid
     /\ dir.cursor.arg = <<>> \/ DirectoryExists(dir.cursor.arg)) =>
        LET expected == ExpectedEntries(dir.cursor.arg, dir.cursor.options)
        IN /\ StrictlyAscending(ChildrenOf(dir.cursor.arg))
           /\ IsPrefixOf(dir.yielded, expected)
           /\ dir.ended => dir.yielded = expected

\* C11: the first Finalize (explicit or by the destructor) of a writer for
\* which no AddFile returned true writes nothing, releases the output stream,
\* and removes the output file exactly when it did not exist before the writer
C11_FinalizeWithoutFiles ==
    [][(~w_finalized /\ accepted = <<>> /\ ret'.op \in {"Finalize", "~PakWriter"})
          => (/\ w_finalized'
              /\ w_outputStream' = "null"
              /\ ~crashed'
              /\ fs' = IF w_alreadyExisted THEN fs ELSE NoFile)]_vars

\* a writer whose only AddFile calls failed, leaving a directory item behind,
\* was finalized and its newly created output file is gone
C11_Witness ==
    /\ ret.op \in {"Finalize", "~PakWriter"}
    /\ accepted = <<>> /\ calls > 0 /\ w_rootItems # <<>>
    /\ ~w_alreadyExisted /\ ~fs.exists /\ w_outputStream = "null"

\* the same with an output file that existed before: it is still there
C11_WitnessExisted ==
    /\ ret.op \in {"Finalize", "~PakWriter"}
    /\ accepted = <<>> /\ w_alreadyExisted /\ fs.exists /\ w_outputStream = "null"

\* the number of file items of a tree, at every level and below every item
RECURSIVE FileItemCount(_)
FileItemCount(items) ==
    IF items = <<>> THEN 0
    ELSE (IF IsDirectory(Head(items)) THEN 0 ELSE 1)
             + FileItemCount(Head(items).ChildItems) + FileItemCount(Tail(items))

\* whether the tree holds a file item with this Offset and these sizes
RECURSIVE HoldsFile(_, _, _, _)
HoldsFile(items, offset, uncompressedSize, size) ==
    /\ items # <<>>
    /\ \/ /\ ~IsDirectory(Head(items))
          /\ Head(items).Offset = offset
          /\ ToWide(Head(items).UncompressedSize) = uncompressedSize
          /\ ToWide(Head(items).Size) = size
       \/ HoldsFile(Head(items).ChildItems, offset, uncompressedSize, size)
       \/ HoldsFile(Tail(items), offset, uncompressedSize, size)

TwoTo32 == Wide(65536, 0)

\* byte counts on both sides of the limit: 0, 1, 2^31 - 1, 2^32 - 3, 2^32 - 2,
\* 2^32 - 1, 2^32, 2^32 + 1, 2^33
ByteCounts ==
    { Wide(0, 0), Wide(0, 1), Wide(32767, 65535), Wide(65535, 65533),
      Wide(65535, 65534), Wide(65535, 65535), Wide(65536, 0), Wide(65536, 1),
      Wide(131072, 0) }

\* C12: every AddFile that returned true copied fewer than 2^32 bytes and
\* stored fewer than 2^32 bytes, its item holds exactly these two numbers, and
\* the tree has no file item besides those of the calls that returned true
\* (so a call with 2^32 bytes or more returned false and appended no file
\* item); the range assertion passes no count that the 32-bit field changes
C12_SizesBelowTwoTo32 ==
    /\ \A i \in 1..Len(accepted) :
           /\ WideLess(accepted[i].uncompressedSize, TwoTo32)
           /\ WideLess(accepted[i].size, TwoTo32)
           /\ HoldsFile(w_rootItems, accepted[i].Offset,
                        accepted[i].uncompressedSize, accepted[i].size)
    /\ FileItemCount(w_rootItems) = Len(accepted)
    /\ \A uncompressedSize \in ByteCounts, size \in ByteCounts :
           SizeAllowed(uncompressedSize, size) =>
               /\ WideLess(uncompressedSize, TwoTo32) /\ WideLess(size, TwoTo32)
               /\ Uint32(uncompressedSize) = uncompressedSize
               /\ Uint32(size) = size

\* an AddFile of a stream of 2^32 bytes or more returned false, on a writer
\* that had accepted a file before
C12_Witness ==
    /\ ret.op = "AddFile" /\ ~ret.ok /\ fs.beyond
    /\ Len(accepted) = 1 /\ FileItemCount(w_rootItems) = 1

\* the non-empty components of a path, split on '/' and '\\'
RECURSIVE Components(_)
Components(path) ==
    IF path = <<>> THEN <<>>
    ELSE Only({ IF separator = 0 THEN <<path>>
                ELSE (IF separator = 1 THEN <<>> ELSE <<prefix(path, separator)>>)
                         \o Components(suffix(path, separator)) :
                    separator \in {findAny(path)} })

\* a walk of the tree along the components, each looked up by comparing the
\* names of the array one after the other; matched is the item of the
\* component before
RECURSIVE LinearWalk(_, _, _)
LinearWalk(items, components, matched) ==
    IF components = <<>> THEN matched
    ELSE Only({ IF i = 0 THEN NullItem
                ELSE LinearWalk(items[i].ChildItems, Tail(components), Found(items[i])) :
                    i \in {IndexOfName(items, Head(components))} })

\* the paths FindItem is given: those of the calls, and "", "a/", "//", "d//e"
LookupPaths ==
    QueryPaths \cup { <<>>, <<97, 47>>, <<47, 47>>, <<100, 47, 47, 101>> }

\* C13: in tree mode FindItem(p) returns what a walk along the non-empty
\* components of p with a linear search at every level returns: the last
\* matched item when the path is exhausted, null when a component has no match
C13_FindItemIsLinearWalk ==
    (Reopened /\ IsValid /\ ~p_useHashIndex) =>
        \A path \in LookupPaths :
            FindItem(path) = LinearWalk(p_rootItems, Components(path), NullItem)

\* a file name with every '\\' written '/' and every A-Z written a-z
FoldByte(c) ==
    CASE c = Backslash -> Slash
      [] c \in 65..90 -> c + 32
      [] OTHER -> c

Folded(fileName) == [i \in 1..Len(fileName) |-> FoldByte(fileName[i])]

\* the positions of a folded name that do not continue a run of separators
Kept(folded) ==
    { i \in 1..Len(folded) : ~(i > 1 /\ folded[i] = Slash /\ folded[i - 1] = Slash) }

\* two file names differ only in the kind of separator, in the length of the
\* runs of separators and in the case of ASCII letters
SameLogicalPath(a, b) ==
    /\ Cardinality(Kept(Folded(a))) = Cardinality(Kept(Folded(b)))
    /\ \A n \in 1..Cardinality(Kept(Folded(a))) :
           \E i \in Kept(Folded(a)), j \in Kept(Folded(b)) :
               /\ Cardinality({k \in Kept(Folded(a)) : k <= i}) = n
               /\ Cardinality({k \in Kept(Folded(b)) : k <= j}) = n
               /\ Folded(a)[i] = Folded(b)[j]

\* C14: a file name that differs from the one hashed only in '\\' for '/',
\* in runs of separators or in ASCII letter case has the same normalized bytes
\* and the same hash; a name without separators keeps its length, and every
\* byte of it outside A-Z is kept as it is
C14_SameLogicalPathSameHash ==
    ret.op = "FileNameToHash" =>
        /\ \A other \in FileNames :
               SameLogicalPath(ret.path, other) =>
                   /\ NormalizedFileName(other) = ret.normalized
                   /\ FileNameToHash(other) = ret.hash
        /\ (\A i \in 1..Len(ret.path) : ~IsSep(ret.path[i])) =>
               /\ Len(ret.normalized) = Len(ret.path)
               /\ \A i \in 1..Len(ret.path) :
                      ret.path[i] \notin 65..90 => ret.normalized[i] = ret.path[i]

\* "Z\\/" was hashed: upper case, a backslash and a run of separators
C14_Witness ==
    /\ ret.op = "FileNameToHash"
    /\ ret.path = <<90, 92, 47>>
    /\ ret.normalized = <<122, 47>>
    /\ ret.hash = FileNameToHash(<<122, 47>>)

\* the item a path designates, found without FindItem: in tree mode by the
\* linear walk, in flat-hash mode among the items whose Name is the path's hash
Designated(path) ==
    IF p_useHashIndex
    THEN { p_rootItems[i] : i \in { k \in 1..Len(p_rootItems) :
               p_rootItems[k].Name = FileNameToHash(trimmedPrefix(path)) } }
    ELSE { found.item : found \in { w \in {LinearWalk(p_rootItems, Components(path), NullItem)} :
                                       w.kind = "item" } }

\* the path is empty, ends in a separator, designates no item or a directory
NotOpenable(path) ==
    \/ path = <<>>
    \/ IsSep(Last(path))
    \/ Designated(path) = {}
    \/ \E item \in Designated(path) : HasFlag(item.Flags, Directory)

\* C15: OpenFile returns no stream for the empty path, for a path that ends
\* in '/' or '\\', for a path without matching item and for a path that
\* resolves to a directory item
C15_OpenFileReturnsNoStream ==
    p_constructed =>
        /\ \A path \in LookupPaths : NotOpenable(path) => OpenFile(path) = NoStream
        /\ (ret.op = "OpenFile" /\ NotOpenable(ret.path)) =>
               (~ret.ok /\ ret.stream = NoStream)

\* OpenFile was called with the path of a directory of a valid archive
C15_Witness ==
    /\ ret.op = "OpenFile" /\ ~ret.ok
    /\ IsValid /\ ~p_useHashIndex
    /\ \E item \in Designated(ret.path) : HasFlag(item.Flags, Directory)

\* the compression kinds an item flag may name, with their flags
CompressionKinds == {"Deflate", "Lz4", "Lzma2", "Zstd"}

FlagOfKind(kind) ==
    CASE kind = "Deflate" -> DeflateCompressed
      [] kind = "Lz4" -> Lz4Compressed
      [] kind = "Lzma2" -> Lzma2Compressed
      [] kind = "Zstd" -> ZstdCompressed

\* C16: OpenFile returns no stream for a file item that carries the flag of
\* a compression kind whose codec the build does not have
C16_NoStreamWithoutCodec ==
    (p_constructed /\ IsValid) =>
        \A path \in QueryPaths : \A item \in Designated(path) :
            \A kind \in CompressionKinds :
                (/\ ~HasFlag(item.Flags, Directory)
                 /\ HasFlag(item.Flags, FlagOfKind(kind))
                 /\ ~CodecAvailable(build, kind))
                    => OpenFile(path) = NoStream

\* C17: whatever the other threads do in between, the PakFile is what it was
\* when a thread made its call (mount point, root items and every ChildItems),
\* and the call returns what it returns when it runs alone
C17_ReadersDoNotInterfere ==
    \A t \in DOMAIN threads :
        threads[t].pc # "idle" =>
            /\ threads[t].built = <<p_mountPoint, p_rootItems>>
            /\ threads[t].pc = "done" =>
                   IF threads[t].op = "Directory"
                   THEN threads[t].yielded = threads[t].alone
                   ELSE threads[t].result = threads[t].alone

\* two threads have returned, one from a lookup two levels down and one from
\* an enumeration that yielded an entry
C17_Witness ==
    /\ threads # <<>>
    /\ \A t \in ThreadIds : threads[t].pc = "done"
    /\ \E t \in ThreadIds :
           threads[t].op = "FileExists" /\ threads[t].result = TRUE
               /\ Len(threads[t].found) = 2
    /\ \E t \in ThreadIds :
           threads[t].op = "Directory" /\ threads[t].yielded # <<>>

\* Finalize wrote an archive
Written == w_finalized /\ fs.exists /\ accepted # <<>> /\ ~crashed /\ ~fs.beyond

\* the index block that starts at a position of the written file, as it
\* parses
BlockAt(offset, isRoot) ==
    IF w_useCompressedIndex /\ build.zlib
    THEN ReadIndexFromStreamDeflateCompressed(fs.data, offset, isRoot, w_useHashIndex, build)
    ELSE ReadIndexFromStream(fs.data, offset, isRoot, w_useHashIndex, build)

\* the items of an array as their descriptions give them: without children
Described(items) == [i \in 1..Len(items) |-> [items[i] EXCEPT !.ChildItems = <<>>]]

\* the root index offset the footer of the written file gives
WrittenRootOffset == ReadValueLE(fs.data, Len(fs.data) - 8, 8)

\* C18: in the file Finalize wrote, the block of every directory starts before
\* the block of its parent and before the root block, and at the Offset of
\* every directory (the one its description in the parent's block carries)
\* there is the block of that directory's own children
C18_BlocksBeforeParents ==
    Written =>
        LET queued == QueuedDirectories(w_rootItems)
        IN /\ \A q \in 1..Len(queued) :
                  LET directory == ItemAt(w_rootItems, queued[q])
                      block == BlockAt(directory.Offset, FALSE)
                  IN /\ directory.Offset < WrittenRootOffset
                     /\ Len(queued[q]) > 1 =>
                            directory.Offset
                                < ItemAt(w_rootItems, Front(queued[q])).Offset
                     /\ block.ok
                     /\ block.items = Described(directory.ChildItems)
           /\ BlockAt(WrittenRootOffset, TRUE).ok
           /\ BlockAt(WrittenRootOffset, TRUE).items = Described(w_rootItems)

\* an archive was written whose tree has a directory inside a directory, and
\* a root array that the sort reordered
C18_Witness ==
    /\ Written /\ ~w_useHashIndex
    /\ \E q \in 1..Len(QueuedDirectories(w_rootItems)) :
           Len(QueuedDirectories(w_rootItems)[q]) = 2
    /\ Len(w_rootItems) = 2
    /\ IsDirectory(w_rootItems[1]) /\ IsDirectory(w_rootItems[2])
    /\ w_rootItems[1].Offset > w_rootItems[2].Offset

\* the number of directory levels of a tree
RECURSIVE Levels(_)
Levels(items) ==
    IF items = <<>> THEN 0
    ELSE Max(IF IsDirectory(Head(items)) THEN 1 + Levels(Head(items).ChildItems) ELSE 0,
             Levels(Tail(items)))

\* C19: a PakFile constructed on an archive the writer finalized with fewer
\* than MaxDepth directory levels holds the writer's mount-point bytes and
\* the writer's sorted tree: at every level the same names, flags, offsets,
\* sizes and children
C19_MaterializedTreeIsWriters ==
    (Reopened /\ Levels(w_rootItems) < MaxDepth)
        => (p_mountPoint = w_mountPoint /\ p_rootItems = w_rootItems)

\* C20: while a PakFile is constructed no index block is read at recursion
\* depth MaxDepth or more, whatever the archive holds, and the constructor
\* returns
C20_DepthBoundedAndConstructed ==
    [](p_log.deepest < MaxDepth) /\ <>p_constructed

\* the constructor returned from an archive whose directory leads back to an
\* ancestor's block, after reading a block at the last level allowed
C20_Witness ==
    /\ p_constructed /\ fs.data = AncestorReferential
    /\ DepthMessage \in p_log.asserted
    /\ p_log.deepest = MaxDepth - 1

\* the same for a directory that leads back to its own block
C20_WitnessOwnBlock ==
    /\ p_constructed /\ fs.data = SelfReferential
    /\ DepthMessage \in p_log.asserted
    /\ p_log.deepest = MaxDepth - 1

\* the positions at which Finalize started an index block
IndexBlockOffsets ==
    {WrittenRootOffset} \cup
        {ItemAt(w_rootItems, QueuedDirectories(w_rootItems)[q]).Offset :
             q \in 1..Len(QueuedDirectories(w_rootItems))}

\* C21: every file AddFile accepted has as Offset the output position at the
\* start of its call, and its item carries that Offset; the byte ranges of
\* the files follow one another in addition order without overlap, start at
\* or after the 8-byte header and end at or before the first index block
C21_FileRangesInAdditionOrder ==
    /\ [](/\ FileItemCount(w_rootItems) = Len(accepted)
          /\ \A i \in 1..Len(accepted) :
                 /\ HoldsFile(w_rootItems, accepted[i].Offset,
                              accepted[i].uncompressedSize, accepted[i].size)
                 /\ accepted[i].Offset >= Len(OptionalHeader)
                 /\ i > 1 => accepted[i].Offset
                                 >= accepted[i - 1].Offset + accepted[i - 1].stored
                 /\ Written => \A block \in IndexBlockOffsets :
                                   accepted[i].Offset + accepted[i].stored <= block)
    /\ [][(ret'.op = "AddFile" /\ calls' # calls /\ ret'.ok)
              => (/\ Len(accepted') = Len(accepted) + 1
                  /\ Last(accepted').Offset = Len(fs.data)
                  /\ SubSeq(fs'.data, 1, Len(fs.data)) = fs.data)]_vars

\* two files were added back to back, the first one compressed, at least one
\* of them beneath a directory, and the archive was written
C21_Witness ==
    /\ Written /\ Len(accepted) = 2
    /\ accepted[1].compressed /\ accepted[1].stored > 1
    /\ accepted[2].Offset = accepted[1].Offset + accepted[1].stored
    /\ Cardinality(IndexBlockOffsets) > 1

\* C22: in flat-hash mode every item of the writer is a file of the root
\* array with a Name of HashIndexLength bytes and no ChildItems, whatever
\* separators the added paths hold
C22_HashModeHasNoDirectories ==
    w_useHashIndex =>
        /\ Len(w_rootItems) = Len(accepted)
        /\ \A i \in 1..Len(w_rootItems) :
               /\ ~IsDirectory(w_rootItems[i])
               /\ Len(w_rootItems[i].Name) = HashIndexLength
               /\ w_rootItems[i].ChildItems = <<>>

\* "d/e/f" and a path with separators were added in flat-hash mode
C22_Witness ==
    /\ w_useHashIndex /\ Len(accepted) = 2
    /\ accepted[1].path = <<100, 47, 101, 47, 102>>
    /\ findAny(accepted[2].path) # 0

\* C23: in tree mode every call of FindItem returns, whatever the path, and
\* with it the FileExists, DirectoryExists or Directory::Impl::Open that made
\* the call: no thread is ever in a pass of FindItem's loop that starts with
\* an empty path, which the pass leaves empty for the next one
C23_FindItemReturns ==
    \A t \in ThreadIds :
        (threads # <<>> /\ ~p_useHashIndex) => threads[t].pc # "spin"

\* C24: once Finalize has released the output stream no operation of the
\* PakWriter dereferences it: an AddFile made then returns false and writes
\* nothing, an IsValid made then returns
C24_ReleasedStreamNotDereferenced ==
    [][w_outputStream = "null"
           => /\ ~crashed'
              /\ calls' # calls => (~ret'.ok /\ fs' = fs /\ w_rootItems' = w_rootItems)]_vars

\* C25: an AddFile that returns false leaves the writer as it was before the
\* call: the tree holds no new directory and no new item, and the output
\* position is where it was
C25_FailedAddFileChangesNothing ==
    [][(calls' # calls /\ ~crashed' /\ ~ret'.ok)
           => (w_rootItems' = w_rootItems /\ GetPosition(fs'.data) = GetPosition(fs.data)
               /\ fs'.beyond = fs.beyond)]_vars

\* whether only Directory items of a tree have ChildItems, at every level
RECURSIVE OnlyDirectoriesHaveChildren(_)
OnlyDirectoriesHaveChildren(items) ==
    \A i \in 1..Len(items) :
        /\ items[i].ChildItems # <<>> => IsDirectory(items[i])
        /\ OnlyDirectoriesHaveChildren(items[i].ChildItems)

\* whether Finalize serialized a file item with this Offset
Serialized(offset) ==
    \E items \in WrittenArrays :
        \E i \in 1..Len(items) : ~IsDirectory(items[i]) /\ items[i].Offset = offset

\* C26: in the writer's tree only Directory items have ChildItems, and every
\* file for which AddFile returned true is in an array that Finalize
\* serialized
C26_FilesHoldNoChildren ==
    /\ OnlyDirectoriesHaveChildren(w_rootItems)
    /\ Written => \A i \in 1..Len(accepted) : Serialized(accepted[i].Offset)

\* whether no item of a tree has an empty Name, at every level
RECURSIVE NoEmptyName(_)
NoEmptyName(items) ==
    \A i \in 1..Len(items) :
        items[i].Name # <<>> /\ NoEmptyName(items[i].ChildItems)

\* C27: no item of the writer has an empty Name, and once "a//b" was added
\* and the archive reopened, FileExists("a//b") and FileExists("a/b") are
\* both true
C27_NoEmptyName ==
    /\ NoEmptyName(w_rootItems)
    /\ (Reopened /\ \E i \in 1..Len(accepted) : accepted[i].path = <<97, 47, 47, 98>>)
           => (FileExists(<<97, 47, 47, 98>>) /\ FileExists(<<97, 47, 98>>))

\* the number of directory components of a path
DirectoryComponents(path) == Cardinality({i \in 1..Len(path) : IsSep(path[i])})

\* C28: every path AddFile accepted in tree mode, a path of MaxDepth or more
\* directory components included, is materialized by the PakFile constructed
\* on the written archive, and FileExists is true for it
C28_WriterAndReaderAgreeOnDepth ==
    (Reopened /\ ~w_useHashIndex) =>
        /\ p_rootItems = w_rootItems
        /\ \A i \in 1..Len(accepted) :
               /\ FindItem(accepted[i].path).kind = "item"
               /\ FileExists(accepted[i].path)

\* C29: a directory cursor never stores outside its path buffer, and the
\* buffer holds a NUL after every Open and Increment, whatever the lengths of
\* the directory path and of the children's names
C29_PathBufferNeverOverrun ==
    dir # NoDir =>
        /\ ~dir.cursor.overflow
        /\ \E i \in 1..MaxPathLength : dir.cursor.path[i] = 0

\* C30: a cursor opened on a directory of a tree archive has yielded one entry
\* for each qualifying child its index has passed, equals the end cursor only
\* when no qualifying child is left, and stays equal to it once it was
C30_CursorReachesEndOnce ==
    (dir # NoDir /\ ~p_useHashIndex /\ dir.cursor.found) =>
        LET c == dir.cursor
            passed == Qualifying(SubSeq(c.childItems, 1, c.index), c.options)
        IN /\ AtEnd(c) => NextQualifying(c.childItems, c.options, c.index) >= Len(c.childItems)
           /\ dir.ended => AtEnd(c)
           /\ Len(dir.yielded) = Len(passed)

====
